---- MODULE Spec2Model ----
(***************************************************************************)
(* Footstep planner of the hulk repository: the rollout of a flat step     *)
(* plan (step_planning/src/step_plan.rs, geometry/pose.rs), the solver     *)
(* driver plan_steps (step_planning_solver/src/lib.rs), the path queries   *)
(* on line segments and arcs (traits/project.rs, traits/path_progress.rs,  *)
(* traits/length.rs, geometry/path.rs, geometry/angle.rs), smoothmin       *)
(* (utils/smoothmin.rs) and the loss fields (loss_fields/path_distance.rs, *)
(* loss_fields/step_size.rs; the path-progress field after section 4.6 of  *)
(* the specification).                                                     *)
(*                                                                         *)
(* Angles of the rollout are counted in quarter turns, so that the         *)
(* rotation matrix of Pose + Step has exact integer entries.  An angle on  *)
(* a circle is a number of quarter turns plus the tangent of the rest, a   *)
(* length along a path a rational part plus a multiple of pi/2 plus a      *)
(* multiple of one arctangent, so that both are exact.  Where a computed   *)
(* value is used several times it is bound as the element of a singleton   *)
(* set (CHOOSE v \in {f(x) : x \in {e}} : TRUE, \E x \in {e} : A), which   *)
(* evaluates it once.                                                      *)
(*                                                                         *)
(* Further parts: the step-planning loss and the value of the cost         *)
(* function (loss_fields/step_planning.rs), Step::mirrored                 *)
(* (types/src/step.rs), Partial::apply_partial with its derive             *)
(* (crates/partial, crates/partial_derive), the clamping of a pixel        *)
(* segment to a rectangle (vision/src/axis_aligned_clamping.rs) and        *)
(* Angle<f32>::angle_to.  The last two are computed in f32, bit for bit:   *)
(* a 24-bit significand with an exponent, rounded to nearest even.         *)
(***************************************************************************)
EXTENDS Integers, Sequences, FiniteSets, TLC

VARIABLES pc, call, param, iter, runs, solver, result,
          nan_sign, gq, gout, wext, wout, lq, lout,
          full_orig, applied, full, cq, cout, aq, aout

vars == <<pc, call, param, iter, runs, solver, result, nan_sign, gq, gout, wext, wout,
          lq, lout, full_orig, applied, full, cq, cout,
          aq, aout>>

planVars == <<pc, call, param, iter, runs, solver, result>>
geomVars == <<gq, gout>>
walkVars == <<wext, wout>>
lossVars == <<lq, lout>>
partialVars == <<full_orig, applied, full>>
clampVars == <<cq, cout>>
angleVars == <<aq, aout>>

(***************************************************************************)
(* Bounds of the model.                                                    *)
(***************************************************************************)
MaxLen == 6
MaxIters == 1
MaxSegs == 2

(***************************************************************************)
(* Program constants.                                                      *)
(***************************************************************************)
STEPS_TO_PLAN == 15
VARIABLES_PER_STEP == 3
NUM_VARIABLES == STEPS_TO_PLAN * VARIABLES_PER_STEP

(***************************************************************************)
(* Side and Side::opposite.                                                *)
(***************************************************************************)
Side == {"Left", "Right"}

opposite(side) == IF side = "Left" THEN "Right" ELSE "Left"

(***************************************************************************)
(* Pose, Step and Pose + Step.  Rotation2::new(orientation) has rows       *)
(* (cos, -sin) and (sin, cos).                                             *)
(***************************************************************************)
Cos(q) == CASE q % 4 = 0 -> 1 [] q % 4 = 1 -> 0 [] q % 4 = 2 -> -1 [] OTHER -> 0
Sin(q) == CASE q % 4 = 0 -> 0 [] q % 4 = 1 -> 1 [] q % 4 = 2 -> 0 [] OTHER -> -1

Pose(x, y, orientation) == [position |-> <<x, y>>, orientation |-> orientation]

Step(forward, left, turn) == [forward |-> forward, left |-> left, turn |-> turn]

Rotate(q, v) == <<Cos(q) * v[1] - Sin(q) * v[2], Sin(q) * v[1] + Cos(q) * v[2]>>

PoseAdd_post_rotation(pose, step) ==
    LET d == Rotate(pose.orientation + step.turn, <<step.forward, step.left>>)
    IN  [position |-> <<pose.position[1] + d[1], pose.position[2] + d[2]>>,
         orientation |-> pose.orientation + step.turn]

PoseAdd(pose, step) ==
    LET d == Rotate(pose.orientation, <<step.forward, step.left>>)
    IN  [position |-> <<pose.position[1] + d[1], pose.position[2] + d[2]>>,
         orientation |-> pose.orientation + step.turn]

with_support_foot(x, support_foot) == [step |-> x, support_foot |-> support_foot]

PoseAndSupportFoot(pose, support_foot) == [pose |-> pose, support_foot |-> support_foot]

(***************************************************************************)
(* StepPlan: a flat buffer wrapped by From<&[T]> (which asserts that the   *)
(* length is a multiple of 3), read back by steps() through                *)
(* chunks_exact(3) and Step::from_slice.                                   *)
(***************************************************************************)
StepPlanFrom_unchecked(value) == [ok |-> TRUE, plan |-> value]

StepPlanFrom(value) == [ok |-> Len(value) % 3 = 0, plan |-> value]

chunks_exact(buffer, n) ==
    [k \in 1..(Len(buffer) \div n) |-> SubSeq(buffer, n * (k - 1) + 1, n * k)]

from_slice(slice) == Step(slice[1], slice[2], slice[3])

steps_strided(plan) ==
    LET chunks == chunks_exact(plan, 3)
    IN  [k \in 1..Len(chunks) |-> Step(chunks[k][1], chunks[k][1], chunks[k][3])]

steps(plan) ==
    LET chunks == chunks_exact(plan, 3)
    IN  [k \in 1..Len(chunks) |-> from_slice(chunks[k])]

(***************************************************************************)
(* StepPlanning::planned_steps: a scan over steps() whose state is the     *)
(* pose and the support foot.  ScanStep is the closure of the scan.        *)
(***************************************************************************)
ScanStep_flip_first(state, step) ==
    LET pose == PoseAdd(state.pose, step)
        foot == opposite(state.support_foot)
    IN  [state |-> PoseAndSupportFoot(pose, foot),
         item  |-> [pose |-> pose, step |-> with_support_foot(step, foot)]]

ScanStep(state, step) ==
    LET pose == PoseAdd(state.pose, step)
    IN  [state |-> PoseAndSupportFoot(pose, opposite(state.support_foot)),
         item  |-> [pose |-> pose,
                    step |-> with_support_foot(step, state.support_foot)]]

RECURSIVE Scan(_, _, _)
Scan(state, ss, k) ==
    IF k > Len(ss) THEN <<>>
    ELSE LET r == ScanStep(state, ss[k])
         IN  <<r.item>> \o Scan(r.state, ss, k + 1)

\* Mutant of planned_steps: the fold runs from the last step to the first.
planned_steps_from_last(initial_pose, plan) ==
    Scan(initial_pose,
         [k \in 1..Len(steps(plan)) |-> steps(plan)[Len(steps(plan)) + 1 - k]], 1)

planned_steps(initial_pose, plan) == Scan(initial_pose, steps(plan), 1)

(***************************************************************************)
(* Floating-point values: exact rationals n/d, the two infinities and NaN. *)
(* Rounding is not modelled; division by zero and the propagation of       *)
(* infinities and NaN follow IEEE 754.  The sign of a NaN produced by an   *)
(* invalid operation depends on the platform (nan_sign).                   *)
(***************************************************************************)
RECURSIVE Gcd(_, _)
Gcd(a, b) == IF b = 0 THEN a ELSE Gcd(b, a % b)

Abs(i) == IF i < 0 THEN -i ELSE i

Sgn(i) == IF i < 0 THEN -1 ELSE IF i > 0 THEN 1 ELSE 0

Num(n, d) ==
    LET s == IF d < 0 THEN -1 ELSE 1
        g == Gcd(Abs(n), Abs(d))
    IN  [k |-> "num", n |-> (s * n) \div g, d |-> (s * d) \div g]

R(i) == [k |-> "num", n |-> i, d |-> 1]

NaN == [k |-> "nan", n |-> 0, d |-> 1]

Inf(s) == [k |-> "inf", n |-> s, d |-> 1]

FNeg(a) == IF a.k = "nan" THEN NaN ELSE [a EXCEPT !.n = -a.n]

FAdd(a, b) ==
    CASE a.k = "nan" \/ b.k = "nan" -> NaN
      [] a.k = "inf" /\ b.k = "inf" -> IF a.n = b.n THEN a ELSE NaN
      [] a.k = "inf" -> a
      [] b.k = "inf" -> b
      [] OTHER ->
            LET g == Gcd(a.d, b.d)
            IN  Num(a.n * (b.d \div g) + b.n * (a.d \div g), (a.d \div g) * b.d)

FSub(a, b) == FAdd(a, FNeg(b))

FMul(a, b) ==
    CASE a.k = "nan" \/ b.k = "nan" -> NaN
      [] a.k = "inf" \/ b.k = "inf" ->
            IF a.n = 0 \/ b.n = 0 THEN NaN ELSE Inf(Sgn(a.n) * Sgn(b.n))
      [] OTHER -> Num(a.n * b.n, a.d * b.d)

FDiv(a, b) ==
    CASE a.k = "nan" \/ b.k = "nan" -> NaN
      [] a.k = "inf" /\ b.k = "inf" -> NaN
      [] a.k = "inf" -> Inf(a.n * (IF b.n < 0 THEN -1 ELSE 1))
      [] b.k = "inf" -> R(0)
      [] b.n = 0 -> IF a.n = 0 THEN NaN ELSE Inf(Sgn(a.n))
      [] OTHER -> Num(a.n * b.d, a.d * b.n)

FLt(a, b) ==
    CASE a.k = "nan" \/ b.k = "nan" -> FALSE
      [] a.k = "inf" /\ b.k = "inf" -> a.n < b.n
      [] a.k = "inf" -> a.n < 0
      [] b.k = "inf" -> b.n > 0
      [] OTHER -> a.n * b.d < b.n * a.d

FClamp(x, min, max) ==
    IF FLt(x, min) THEN min ELSE IF FLt(max, x) THEN max ELSE x

TotalLess(a, b) ==
    CASE a.k = "nan" /\ b.k = "nan" -> FALSE
      [] a.k = "nan" -> nan_sign < 0
      [] b.k = "nan" -> nan_sign > 0
      [] OTHER -> FLt(a, b)

IsSquare(i) == \E r \in 0..i : r * r = i

ISqrt(i) == CHOOSE r \in 0..i : r * r = i

HasSqrt(a) == a.k # "num" \/ (a.n >= 0 /\ IsSquare(a.n) /\ IsSquare(a.d))

FSqrt(a) ==
    CASE a.k = "nan" -> NaN
      [] a.k = "inf" -> IF a.n > 0 THEN a ELSE NaN
      [] a.n < 0 -> NaN
      [] OTHER -> Num(ISqrt(a.n), ISqrt(a.d))

(***************************************************************************)
(* Points and vectors of the ground plane.                                 *)
(***************************************************************************)
P(x, y) == <<R(x), R(y)>>

VSub(p, q) == <<FSub(p[1], q[1]), FSub(p[2], q[2])>>

VAdd(p, v) == <<FAdd(p[1], v[1]), FAdd(p[2], v[2])>>

VScale(v, t) == <<FMul(v[1], t), FMul(v[2], t)>>

dot(v, w) == FAdd(FMul(v[1], w[1]), FMul(v[2], w[2]))

norm_squared(v) == dot(v, v)

norm(v) == FSqrt(norm_squared(v))

normalize(v) == <<FDiv(v[1], norm(v)), FDiv(v[2], norm(v))>>

(***************************************************************************)
(* LineSegment(start, end): project, progress, forward, length.            *)
(***************************************************************************)
LineSegment(start, end) == [kind |-> "LineSegment", start |-> start, end |-> end]

LineProject(segment, point) ==
    LET direction == VSub(segment.end, segment.start)
        v == VSub(point, segment.start)
        t == FDiv(dot(v, direction), norm_squared(direction))
    IN  VAdd(segment.start, VScale(direction, FClamp(t, R(0), R(1))))

\* Mutant of LineProgress: the progress is clamped to the segment.
LineProgress_clamped(segment, point) ==
    LET start_to_point == VSub(point, segment.start)
        start_to_end == VSub(segment.end, segment.start)
    IN  FClamp(dot(start_to_point, normalize(start_to_end)), R(0), norm(start_to_end))

LineProgress(segment, point) ==
    LET start_to_point == VSub(point, segment.start)
        start_to_end == VSub(segment.end, segment.start)
    IN  dot(start_to_point, normalize(start_to_end))

LineForward(segment, point) == normalize(VSub(segment.end, segment.start))

LineLength(segment) == norm(VSub(segment.end, segment.start))

(***************************************************************************)
(* Angle.  An angle is q quarter turns plus a rest in [0, pi/2) that is    *)
(* kept as its tangent t >= 0, so that the differences, the normalisation  *)
(* and the comparisons of the angles of rational points are exact.         *)
(* atan2(0, 0) is 0; the angle of a NaN is NaN.                            *)
(***************************************************************************)
Directions == {"Clockwise", "Counterclockwise"}

Angle(q) == [q |-> q, t |-> R(0)]

atan2(y, x) ==
    CASE x.k = "nan" \/ y.k = "nan" -> [q |-> 0, t |-> NaN]
      [] FLt(R(0), x) /\ ~FLt(y, R(0)) -> [q |-> 0, t |-> FDiv(y, x)]
      [] ~FLt(R(0), x) /\ FLt(R(0), y) -> [q |-> 1, t |-> FDiv(FNeg(x), y)]
      [] FLt(x, R(0)) /\ ~FLt(R(0), y) -> [q |-> IF y = R(0) THEN 2 ELSE -2,
                                            t |-> FDiv(y, x)]
      [] ~FLt(x, R(0)) /\ FLt(y, R(0)) -> [q |-> -1, t |-> FDiv(x, FNeg(y))]
      [] OTHER -> Angle(0)

AngleSub(a, b) ==
    LET numerator == FSub(a.t, b.t)
        denominator == FAdd(R(1), FMul(a.t, b.t))
    IN  IF FLt(numerator, R(0))
        THEN [q |-> a.q - b.q - 1, t |-> FDiv(denominator, FNeg(numerator))]
        ELSE [q |-> a.q - b.q, t |-> FDiv(numerator, denominator)]

AngleMul(a, sign) ==
    IF sign = 1 THEN a
    ELSE IF a.t = R(0) THEN [q |-> -a.q, t |-> R(0)]
    ELSE [q |-> -a.q - 1, t |-> FDiv(R(1), a.t)]

angle_sign(direction) == IF direction = "Clockwise" THEN -1 ELSE 1

normalized(a) == [a EXCEPT !.q = a.q % 4]

angle_to_no_wrap(from, to, direction) ==
    AngleMul(AngleSub(to, from), angle_sign(direction))

angle_to(from, to, direction) ==
    normalized(AngleMul(AngleSub(to, from), angle_sign(direction)))

AngleLt(a, b) == a.q < b.q \/ (a.q = b.q /\ FLt(a.t, b.t))

as_direction(angle) ==
    LET u == normalize(<<R(1), angle.t>>)
    IN  <<FSub(FMul(R(Cos(angle.q)), u[1]), FMul(R(Sin(angle.q)), u[2])),
          FAdd(FMul(R(Sin(angle.q)), u[1]), FMul(R(Cos(angle.q)), u[2]))>>

(***************************************************************************)
(* Lengths along a path: lin + qtr * pi/2 + fr * atan(ft), where the last  *)
(* term is the rest of one angle times a radius.                           *)
(***************************************************************************)
Lin(x) == [lin |-> x, qtr |-> R(0), fr |-> R(0), ft |-> R(0)]

AngleTimes(angle, radius) ==
    [lin |-> R(0), qtr |-> FMul(R(angle.q), radius),
     fr |-> IF angle.t = R(0) THEN R(0) ELSE radius, ft |-> angle.t]

LAdd(a, b) ==
    [lin |-> FAdd(a.lin, b.lin), qtr |-> FAdd(a.qtr, b.qtr),
     fr |-> IF a.fr = R(0) THEN b.fr ELSE a.fr,
     ft |-> IF a.fr = R(0) THEN b.ft ELSE a.ft]

(***************************************************************************)
(* Circle and Arc: classify_point, project, progress, forward, length.     *)
(***************************************************************************)
Circle(center, radius) == [center |-> center, radius |-> radius]

point_at_angle(circle, angle) ==
    VAdd(circle.center, VScale(as_direction(angle), circle.radius))

tangent(circle, angle, direction) ==
    LET radius == as_direction(angle)
    IN  IF direction = "Clockwise"
        THEN <<radius[2], FNeg(radius[1])>>
        ELSE <<FNeg(radius[2]), radius[1]>>

Arc(circle, start, end, direction) ==
    [kind |-> "Arc", circle |-> circle, start |-> start, end |-> end,
     direction |-> direction]

\* Mutant of classify_point: a point that is not on the arc goes to the
\* farther endpoint.
classify_point_farther(arc, point) ==
    LET center_to_point == VSub(point, arc.circle.center)
        angle == atan2(center_to_point[2], center_to_point[1])
        angle_to_end == angle_to(arc.start, arc.end, arc.direction)
        angle_to_point == angle_to(arc.start, angle, arc.direction)
        start_point == point_at_angle(arc.circle, arc.start)
        end_point == point_at_angle(arc.circle, arc.end)
        squared_distance_to_start == norm_squared(VSub(point, start_point))
        squared_distance_to_end == norm_squared(VSub(point, end_point))
    IN  IF AngleLt(angle_to_point, angle_to_end) THEN "OnArc"
        ELSE IF FLt(squared_distance_to_end, squared_distance_to_start) THEN "Start"
        ELSE "End"

classify_point(arc, point) ==
    LET center_to_point == VSub(point, arc.circle.center)
        angle == atan2(center_to_point[2], center_to_point[1])
        angle_to_end == angle_to(arc.start, arc.end, arc.direction)
        angle_to_point == angle_to(arc.start, angle, arc.direction)
        start_point == point_at_angle(arc.circle, arc.start)
        end_point == point_at_angle(arc.circle, arc.end)
        squared_distance_to_start == norm_squared(VSub(point, start_point))
        squared_distance_to_end == norm_squared(VSub(point, end_point))
    IN  IF AngleLt(angle_to_point, angle_to_end) THEN "OnArc"
        ELSE IF FLt(squared_distance_to_start, squared_distance_to_end) THEN "Start"
        ELSE "End"

ArcProject(arc, point) ==
    LET kind == classify_point(arc, point)
        center_to_point == VSub(point, arc.circle.center)
    IN  CASE kind = "OnArc" ->
                 VAdd(arc.circle.center,
                      VScale(normalize(center_to_point), arc.circle.radius))
          [] kind = "Start" -> point_at_angle(arc.circle, arc.start)
          [] OTHER -> point_at_angle(arc.circle, arc.end)

ArcLength(arc) ==
    AngleTimes(angle_to(arc.start, arc.end, arc.direction), arc.circle.radius)

ArcProgress(arc, point) ==
    LET kind == classify_point(arc, point)
        center_to_point == VSub(point, arc.circle.center)
        angle == atan2(center_to_point[2], center_to_point[1])
    IN  CASE kind = "OnArc" ->
                 AngleTimes(angle_to(arc.start, angle, arc.direction), arc.circle.radius)
          [] kind = "Start" ->
                 Lin(dot(VSub(point, point_at_angle(arc.circle, arc.start)),
                         tangent(arc.circle, arc.start, arc.direction)))
          [] OTHER ->
                 LAdd(ArcLength(arc),
                      Lin(dot(VSub(point, point_at_angle(arc.circle, arc.end)),
                              tangent(arc.circle, arc.end, arc.direction))))

ArcForward(arc, point) ==
    LET kind == classify_point(arc, point)
        center_to_point == VSub(point, arc.circle.center)
        distance_to_center == norm(center_to_point)
        angle == atan2(center_to_point[2], center_to_point[1])
        forward_scale == FDiv(arc.circle.radius, distance_to_center)
    IN  CASE kind = "OnArc" ->
                 VScale(tangent(arc.circle, angle, arc.direction), forward_scale)
          [] kind = "Start" -> tangent(arc.circle, arc.start, arc.direction)
          [] OTHER -> tangent(arc.circle, arc.end, arc.direction)

(***************************************************************************)
(* PathSegment dispatch.                                                   *)
(***************************************************************************)
SegmentProject(segment, point) ==
    IF segment.kind = "LineSegment" THEN LineProject(segment, point)
    ELSE ArcProject(segment, point)

SegmentProgress(segment, point) ==
    IF segment.kind = "LineSegment" THEN Lin(LineProgress(segment, point))
    ELSE ArcProgress(segment, point)

SegmentForward(segment, point) ==
    IF segment.kind = "LineSegment" THEN LineForward(segment, point)
    ELSE ArcForward(segment, point)

SegmentLength(segment) ==
    IF segment.kind = "LineSegment" THEN Lin(LineLength(segment))
    ELSE ArcLength(segment)

(***************************************************************************)
(* Iterator::min_by with f32::total_cmp: the index of the first minimal    *)
(* element of a non-empty sequence of keys.                                *)
(***************************************************************************)
RECURSIVE MinFrom(_, _, _)
MinFrom(keys, best, i) ==
    IF i > Len(keys) THEN best
    ELSE MinFrom(keys, IF TotalLess(keys[i], keys[best]) THEN i ELSE best, i + 1)

min_by(keys) == MinFrom(keys, 1, 2)

(***************************************************************************)
(* Path: project, progress, forward, length.  Each query returns           *)
(* [ok, value, msg]; ok = FALSE is a panic with message msg.               *)
(***************************************************************************)
Returned(value) == [ok |-> TRUE, value |-> value, msg |-> <<>>]

Panicked(msg) == [ok |-> FALSE, value |-> <<>>, msg |-> msg]

SquaredDistances(segments, point) ==
    [i \in 1..Len(segments) |->
        norm_squared(VSub(SegmentProject(segments[i], point), point))]

RECURSIVE PathLengthUpTo(_, _)
PathLengthUpTo(segments, i) ==
    IF i = 0 THEN Lin(R(0))
    ELSE LAdd(PathLengthUpTo(segments, i - 1), SegmentLength(segments[i]))

PathLength(segments) == PathLengthUpTo(segments, Len(segments))

PathProject_unchecked(segments, point) ==
    IF segments = <<>> THEN Returned(point)
    ELSE CHOOSE projection \in
             {Returned(SegmentProject(segment, point)) :
                 segment \in {segments[min_by(SquaredDistances(segments, point))]}} :
             TRUE

PathProject(segments, point) ==
    IF segments = <<>> THEN Panicked(<<"Path was empty">>)
    ELSE CHOOSE projection \in
             {Returned(SegmentProject(segment, point)) :
                 segment \in {segments[min_by(SquaredDistances(segments, point))]}} :
             TRUE

PathProgress(segments, point) ==
    IF segments = <<>> THEN Panicked(<<"Path was empty">>)
    ELSE CHOOSE progress \in
             {Returned(<<LAdd(PathLengthUpTo(segments, i - 1),
                              SegmentProgress(segments[i], point))>>) :
                 i \in {min_by(SquaredDistances(segments, point))}} : TRUE

PathForward(segments, point) ==
    IF segments = <<>> THEN Panicked(<<"Path was empty">>)
    ELSE CHOOSE forward \in
             {Returned(SegmentForward(segment, point)) :
                 segment \in {segments[min_by(SquaredDistances(segments, point))]}} :
             TRUE

(***************************************************************************)
(* smoothmin and smoothmin_derivative.                                     *)
(***************************************************************************)
RECURSIVE powi(_, _)
powi(x, n) == IF n = 0 THEN R(1) ELSE FMul(powi(x, n - 1), x)

smoothmin_late_cap(x, max, smoothness) ==
    IF FLt(x, max) THEN FAdd(x, FMul(smoothness, Num(1, 2))) ELSE max

smoothmin_single_denominator(x, max, smoothness) ==
    IF FLt(x, FSub(max, smoothness)) THEN FAdd(x, FMul(smoothness, Num(1, 2)))
    ELSE IF FLt(x, max) THEN FSub(max, FDiv(powi(FSub(max, x), 2), smoothness))
    ELSE max

smoothmin(x, max, smoothness) ==
    IF FLt(x, FSub(max, smoothness)) THEN FAdd(x, FMul(smoothness, Num(1, 2)))
    ELSE IF FLt(x, max)
    THEN FSub(max, FDiv(powi(FSub(max, x), 2), FMul(smoothness, R(2))))
    ELSE max

smoothmin_derivative(x, max, smoothness) ==
    IF FLt(x, FSub(max, smoothness)) THEN R(1)
    ELSE IF FLt(x, max)
    THEN FDiv(FMul(R(2), FSub(max, x)), FMul(smoothness, R(2)))
    ELSE R(0)

(***************************************************************************)
(* PathDistanceField and PathProgressField: loss and grad at a point.      *)
(* PathProgressField is taken from section 4.6 of the specification; its   *)
(* progress and length are plain numbers on paths of line segments.        *)
(***************************************************************************)
PathDistanceLoss(path, point) ==
    CHOOSE loss \in
        {IF ~projection.ok THEN projection
         ELSE Returned(<<norm_squared(VSub(point, projection.value))>>) :
            projection \in {PathProject(path, point)}} : TRUE

PathDistanceGrad(path, point) ==
    CHOOSE grad \in
        {IF ~projection.ok THEN projection
         ELSE Returned(VScale(VSub(point, projection.value), R(2))) :
            projection \in {PathProject(path, point)}} : TRUE

PathProgressLoss(path, smoothness, point) ==
    CHOOSE loss \in
        {IF ~progress.ok THEN progress
         ELSE Returned(<<FNeg(smoothmin(progress.value[1].lin, length.lin,
                                        smoothness))>>) :
            progress \in {PathProgress(path, point)},
            length \in {PathLength(path)}} : TRUE

PathProgressGrad(path, smoothness, point) ==
    CHOOSE grad \in
        {IF ~progress.ok THEN progress
         ELSE Returned(VScale(forward.value,
                              FNeg(smoothmin_derivative(progress.value[1].lin,
                                                        length.lin, smoothness)))) :
            progress \in {PathProgress(path, point)},
            forward \in {PathForward(path, point)},
            length \in {PathLength(path)}} : TRUE

(***************************************************************************)
(* WalkVolumeCoefficients::from_extents_and_exponents.                     *)
(***************************************************************************)
WalkVolumeExtents(forward, backward, outward, inward, outward_rotation, inward_rotation) ==
    [forward |-> forward, backward |-> backward, outward |-> outward,
     inward |-> inward, outward_rotation |-> outward_rotation,
     inward_rotation |-> inward_rotation]

ExtentFields ==
    {"forward", "backward", "outward", "inward", "outward_rotation", "inward_rotation"}

from_extents_and_exponents(extents, translation_exponent, rotation_exponent) ==
    Returned([forward_cost |-> FDiv(R(1), extents.forward),
              backward_cost |-> FDiv(R(1), extents.backward),
              outward_cost |-> FDiv(R(1), extents.outward),
              inward_cost |-> FDiv(R(1), extents.inward),
              outward_rotation_cost |-> FDiv(R(1), extents.outward_rotation),
              inward_rotation_cost |-> FDiv(R(1), extents.inward_rotation),
              translation_exponent |-> translation_exponent,
              rotation_exponent |-> rotation_exponent])

CostOf(field) ==
    CASE field = "forward" -> "forward_cost"
      [] field = "backward" -> "backward_cost"
      [] field = "outward" -> "outward_cost"
      [] field = "inward" -> "inward_cost"
      [] field = "outward_rotation" -> "outward_rotation_cost"
      [] OTHER -> "inward_rotation_cost"

(***************************************************************************)
(* f32::powf for the arguments whose power is a rational number            *)
(* (PowfExact), f32::abs and f32::is_sign_positive.  NegZero is -0.0 as a  *)
(* component of a step: it equals 0.0 and its sign is negative.            *)
(***************************************************************************)
NegZero == [k |-> "num", n |-> 0, d |-> -1]

is_sign_positive(value) ==
    CASE value.k = "nan" -> nan_sign > 0
      [] value.k = "inf" -> value.n > 0
      [] OTHER -> value.n > 0 \/ (value.n = 0 /\ value.d > 0)

IsZero(value) == value.k = "num" /\ value.n = 0

FAbs(a) == IF a.k = "nan" THEN NaN ELSE [a EXCEPT !.n = Abs(a.n), !.d = Abs(a.d)]

RECURSIVE IPow(_, _)
IPow(b, e) == IF e = 0 THEN 1 ELSE b * IPow(b, e - 1)

RECURSIVE RootFrom(_, _, _)
RootFrom(r, i, k) == IF IPow(r, k) >= i THEN r ELSE RootFrom(r + 1, i, k)

IRoot(i, k) == RootFrom(0, i, k)

HasRoot(i, k) == IPow(IRoot(i, k), k) = i

PowfExact(x, e) ==
    IF x.k # "num" \/ x.n <= 0 \/ e.n = 0 THEN TRUE
    ELSE HasRoot(IPow(x.n, Abs(e.n)), e.d) /\ HasRoot(IPow(x.d, Abs(e.n)), e.d)

powf(x, e) ==
    CASE e.k = "num" /\ e.n = 0 -> R(1)
      [] x.k = "nan" \/ e.k # "num" -> NaN
      [] x.k = "inf" -> IF e.n > 0 THEN Inf(1) ELSE R(0)
      [] x.n = 0 -> IF e.n > 0 THEN R(0) ELSE Inf(1)
      [] x.n < 0 -> NaN
      [] OTHER ->
            LET numerator == IRoot(IPow(x.n, Abs(e.n)), e.d)
                denominator == IRoot(IPow(x.d, Abs(e.n)), e.d)
            IN  IF e.n > 0 THEN Num(numerator, denominator)
                ELSE Num(denominator, numerator)

(***************************************************************************)
(* StepSizeField: WalkVolumeCoefficients::costs, positive_negative,        *)
(* walk_volume, walk_volume_gradient, the penalty function and its         *)
(* derivative, loss and grad.                                              *)
(***************************************************************************)
positive_negative(value, positive, negative) ==
    IF is_sign_positive(value) THEN positive ELSE negative

costs(coefficients, step, support_foot) ==
    LET positive_left_cost ==
            IF support_foot = "Left" THEN coefficients.inward_cost
            ELSE coefficients.outward_cost
        negative_left_cost ==
            IF support_foot = "Left" THEN coefficients.outward_cost
            ELSE coefficients.inward_cost
        clockwise_rotation_cost ==
            IF support_foot = "Left" THEN coefficients.outward_rotation_cost
            ELSE coefficients.inward_rotation_cost
        counterclockwise_rotation_cost ==
            IF support_foot = "Left" THEN coefficients.inward_rotation_cost
            ELSE coefficients.outward_rotation_cost
    IN  Step(positive_negative(step.forward, coefficients.forward_cost,
                               coefficients.backward_cost),
             positive_negative(step.left, positive_left_cost, negative_left_cost),
             positive_negative(step.turn, clockwise_rotation_cost,
                               counterclockwise_rotation_cost))

walk_volume(coefficients, step, support_foot) ==
    LET c == costs(coefficients, step, support_foot)
        normalized_forward == FMul(step.forward, c.forward)
        normalized_left == FMul(step.left, c.left)
        normalized_turn == FMul(step.turn, c.turn)
        t == coefficients.translation_exponent
        r == coefficients.rotation_exponent
    IN  FAdd(powf(FAdd(powf(FAbs(normalized_forward), t),
                       powf(FAbs(normalized_left), t)),
                  FDiv(r, t)),
             powf(FAbs(normalized_turn), r))

walk_volume_gradient(coefficients, step, support_foot) ==
    LET c == costs(coefficients, step, support_foot)
        normalized_forward == FAbs(FMul(step.forward, c.forward))
        normalized_left == FAbs(FMul(step.left, c.left))
        normalized_turn == FAbs(FMul(step.turn, c.turn))
        t == coefficients.translation_exponent
        r == coefficients.rotation_exponent
        normalized_forward_powf_t == powf(normalized_forward, t)
        normalized_left_powf_t == powf(normalized_left, t)
        normalized_turn_powf_r == powf(normalized_turn, r)
        translation_norm ==
            powf(FAdd(powf(normalized_forward, t), powf(normalized_left, t)),
                 FDiv(FSub(r, t), t))
    IN  Step(IF IsZero(step.forward) THEN R(0)
             ELSE FDiv(FMul(FMul(FMul(FMul(r, powi(c.forward, 2)), step.forward),
                                 translation_norm),
                            normalized_forward_powf_t),
                       powi(normalized_forward, 2)),
             IF IsZero(step.left) THEN R(0)
             ELSE FDiv(FMul(FMul(FMul(FMul(r, powi(c.left, 2)), step.left),
                                 translation_norm),
                            normalized_left_powf_t),
                       powi(normalized_left, 2)),
             IF IsZero(step.turn) THEN R(0)
             ELSE FDiv(FMul(FMul(FMul(r, powi(c.turn, 2)), step.turn),
                            normalized_turn_powf_r),
                       powi(normalized_turn, 2)))

penalty_function(walk_volume_value) == powi(walk_volume_value, 6)

penalty_function_derivative(walk_volume_value) ==
    FMul(powi(walk_volume_value, 5), R(6))

StepSizeLoss(coefficients, step, support_foot) ==
    penalty_function(walk_volume(coefficients, step, support_foot))

StepSizeGrad(coefficients, step, support_foot) ==
    LET value == walk_volume(coefficients, step, support_foot)
        grad == walk_volume_gradient(coefficients, step, support_foot)
        factor == penalty_function_derivative(value)
    IN  Step(FMul(grad.forward, factor), FMul(grad.left, factor),
             FMul(grad.turn, factor))

WalkVolumeExact(coefficients, step, support_foot) ==
    LET c == costs(coefficients, step, support_foot)
        normalized_forward == FAbs(FMul(step.forward, c.forward))
        normalized_left == FAbs(FMul(step.left, c.left))
        normalized_turn == FAbs(FMul(step.turn, c.turn))
        t == coefficients.translation_exponent
        r == coefficients.rotation_exponent
    IN  /\ PowfExact(normalized_forward, t)
        /\ PowfExact(normalized_left, t)
        /\ PowfExact(normalized_turn, r)
        /\ LET sum == FAdd(powf(normalized_forward, t), powf(normalized_left, t))
           IN  PowfExact(sum, FDiv(r, t)) /\ PowfExact(sum, FDiv(FSub(r, t), t))

(***************************************************************************)
(* StepPlanningProblem::cost and ::gradient, as far as their outcome       *)
(* (value or panic) is concerned: both wrap the parameter as a StepPlan,   *)
(* roll it out and evaluate the loss field at every planned step, which    *)
(* projects the pose onto the path.  gradient first converts the           *)
(* parameter into an array of NUM_VARIABLES entries.                       *)
(***************************************************************************)
PosePoint(pose) == P(pose.position[1], pose.position[2])

cost(problem, parameter) ==
    LET step_plan == StepPlanFrom(parameter)
        planned == planned_steps(
            PoseAndSupportFoot(problem.initial_pose, problem.initial_support_foot),
            step_plan.plan)
    IN  IF ~step_plan.ok
        THEN Panicked(<<"assertion failed: value.len() % 3 == 0">>)
        ELSE IF \E k \in 1..Len(planned) :
                    ~PathProject(problem.path, PosePoint(planned[k].pose)).ok
        THEN Panicked(<<"Path was empty">>)
        ELSE Returned(<<>>)

gradient(problem, parameter) ==
    IF Len(parameter) # NUM_VARIABLES
    THEN Panicked(<<"called Result::unwrap on an Err value">>)
    ELSE cost(problem, parameter)

(***************************************************************************)
(* plan_steps after Executor::run has returned: an error of the run is     *)
(* wrapped and returned, a missing best parameter panics in unwrap, and    *)
(* the best parameter is rolled out from the initial pose and foot.        *)
(***************************************************************************)
NoResult == [kind |-> "None", steps |-> <<>>, msg |-> <<>>]

Ok(planned) == [kind |-> "Ok", steps |-> planned, msg |-> <<>>]

Err(msg) == [kind |-> "Err", steps |-> <<>>, msg |-> msg]

Panic(msg) == [kind |-> "Panic", steps |-> <<>>, msg |-> msg]

collect_planned_steps(buffer, initial_pose, initial_support_foot) ==
    LET step_plan == StepPlanFrom(buffer)
    IN  IF ~step_plan.ok
        THEN Panic(<<"assertion failed: value.len() % 3 == 0">>)
        ELSE Ok(planned_steps(PoseAndSupportFoot(initial_pose, initial_support_foot),
                              step_plan.plan))

plan_steps_result_zero_plan(problem, run, current) ==
    IF run.status = "failed"
    THEN collect_planned_steps([i \in 1..NUM_VARIABLES |-> 0], problem.initial_pose,
                               problem.initial_support_foot)
    ELSE IF run.best_param = <<>>
    THEN Panic(<<"called Option::unwrap on a None value">>)
    ELSE collect_planned_steps(run.best_param[1], problem.initial_pose,
                               problem.initial_support_foot)

plan_steps_result_current(problem, run, current) ==
    IF run.status = "failed"
    THEN Err(<<"Executor failed: ", run.error>>)
    ELSE collect_planned_steps(IF run.best_param = <<>> THEN current
                               ELSE run.best_param[1],
                               problem.initial_pose, problem.initial_support_foot)

plan_steps_result(problem, run, current) ==
    IF run.status = "failed"
    THEN Err(<<"Executor failed: ", run.error>>)
    ELSE IF run.best_param = <<>>
    THEN Panic(<<"called Option::unwrap on a None value">>)
    ELSE collect_planned_steps(run.best_param[1], problem.initial_pose,
                               problem.initial_support_foot)

(***************************************************************************)
(* Inputs of the planner.                                                  *)
(***************************************************************************)
StepVals == {-1, 0, 1}

RECURSIVE SeqsOfLen(_, _)
SeqsOfLen(S, n) ==
    IF n = 0 THEN {<<>>}
    ELSE {Append(q, x) : q \in SeqsOfLen(S, n - 1), x \in S}

SeqsUpTo(S, n) == UNION {SeqsOfLen(S, m) : m \in 0..n}

Buffers == SeqsUpTo(StepVals, MaxLen)

InitialPoses == {Pose(0, 0, 0), Pose(1, -1, 1), Pose(-1, 0, -2)}

PlannerPaths == {<<>>, <<LineSegment(P(0, 0), P(3, 0))>>}

SolverErrors == {"LineSearchFailed", "NaNCost"}

NoCall ==
    [op |-> "none", buffer |-> <<>>, path |-> <<>>,
     initial_pose |-> Pose(0, 0, 0), initial_support_foot |-> "Left"]

IdleSolver == [status |-> "idle", best_param |-> <<>>, error |-> ""]

SolverSteps == {Step(1, 0, 0), Step(0, 1, 1), Step(-1, -1, -1)}

SolverCandidates(current) ==
    {current} \cup
    {[current EXCEPT ![3 * k - 2] = s.forward, ![3 * k - 1] = s.left, ![3 * k] = s.turn] :
        k \in 1..(Len(current) \div 3), s \in SolverSteps}

(***************************************************************************)
(* Actions of the planner.                                                 *)
(***************************************************************************)
Rollout(buffer, initial_pose, initial_support_foot) ==
    /\ pc = "idle"
    /\ call' = [op |-> "rollout", buffer |-> buffer, path |-> <<>>,
                initial_pose |-> initial_pose,
                initial_support_foot |-> initial_support_foot]
    /\ result' = collect_planned_steps(buffer, initial_pose, initial_support_foot)
    /\ pc' = "done"
    /\ UNCHANGED <<param, iter, runs, solver, nan_sign, geomVars, walkVars, lossVars, partialVars, clampVars, angleVars>>

PlanStepsCall(path, initial_pose, initial_support_foot) ==
    /\ pc = "idle"
    /\ call' = [op |-> "plan_steps", buffer |-> <<>>, path |-> path,
                initial_pose |-> initial_pose,
                initial_support_foot |-> initial_support_foot]
    /\ param' = [i \in 1..NUM_VARIABLES |-> 0]
    /\ iter' = 0
    /\ runs' = runs + 1
    /\ solver' = [status |-> "running", best_param |-> <<>>, error |-> ""]
    /\ pc' = "solving"
    /\ UNCHANGED <<result, nan_sign, geomVars, walkVars, lossVars, partialVars, clampVars, angleVars>>

SolverIterate ==
    /\ pc = "solving"
    /\ iter < MaxIters
    /\ \E c \in {cost(call, param)}, g \in {gradient(call, param)} :
           IF ~c.ok \/ ~g.ok
           THEN /\ result' = Panic(IF ~c.ok THEN c.msg ELSE g.msg)
                /\ pc' = "done"
                /\ UNCHANGED <<param, iter>>
           ELSE /\ param' \in SolverCandidates(param)
                /\ iter' = iter + 1
                /\ UNCHANGED <<pc, result>>
    /\ UNCHANGED <<call, runs, solver, nan_sign, geomVars, walkVars, lossVars, partialVars, clampVars, angleVars>>

SolverTerminate(has_best) ==
    /\ pc = "solving"
    /\ iter >= 1
    /\ solver' = [status |-> "terminated",
                  best_param |-> IF has_best THEN <<param>> ELSE <<>>,
                  error |-> ""]
    /\ pc' = "ran"
    /\ UNCHANGED <<call, param, iter, runs, result, nan_sign, geomVars, walkVars, lossVars, partialVars, clampVars, angleVars>>

SolverFail(error) ==
    /\ pc = "solving"
    /\ solver' = [status |-> "failed", best_param |-> <<>>, error |-> error]
    /\ pc' = "ran"
    /\ UNCHANGED <<call, param, iter, runs, result, nan_sign, geomVars, walkVars, lossVars, partialVars, clampVars, angleVars>>

PlanStepsReturn ==
    /\ pc = "ran"
    /\ result' = plan_steps_result(call, solver, param)
    /\ pc' = "done"
    /\ UNCHANGED <<call, param, iter, runs, solver, nan_sign, geomVars, walkVars, lossVars, partialVars, clampVars, angleVars>>

Forget ==
    /\ pc = "done"
    /\ pc' = "idle"
    /\ call' = NoCall
    /\ param' = <<>>
    /\ iter' = 0
    /\ runs' = 0
    /\ solver' = IdleSolver
    /\ result' = NoResult
    /\ UNCHANGED <<nan_sign, geomVars, walkVars, lossVars, partialVars, clampVars, angleVars>>

(***************************************************************************)
(* Path and line-segment queries.                                          *)
(***************************************************************************)
GridPoints == {P(x, y) : x \in 0..2, y \in 0..2}

QueryPoints == {P(x, y) : x \in (-1)..3, y \in (-1)..3}

LineSegments == {LineSegment(a, b) : a \in GridPoints, b \in GridPoints}

ArcRadii == {R(1), R(2)}

ArcAngles == {Angle(q) : q \in 0..4}

Arcs ==
    {Arc(Circle(P(1, 1), r), start, end, direction) :
        r \in ArcRadii, start \in ArcAngles, end \in ArcAngles, direction \in Directions}

LengthRadii == {Num(1, 2), R(1), R(2), R(5)}

StartAngles == {Angle(q) : q \in (-4)..4}

Sweeps == 0..5

PathSegments ==
    {LineSegment(P(0, 0), P(2, 0)), LineSegment(P(2, 0), P(2, 2)),
     LineSegment(P(2, 2), P(0, 2)), LineSegment(P(0, 0), P(1, 1)),
     LineSegment(P(1, 1), P(1, 1)),
     Arc(Circle(P(1, 1), R(1)), Angle(3), Angle(0), "Counterclockwise"),
     Arc(Circle(P(1, 1), R(1)), Angle(1), Angle(3), "Clockwise")}

Paths == SeqsUpTo(PathSegments, MaxSegs)

Measurable(segments) ==
    \A i \in 1..Len(segments) :
        segments[i].kind = "LineSegment" =>
            HasSqrt(norm_squared(VSub(segments[i].end, segments[i].start)))

ArcExact(arc, point) ==
    classify_point(arc, point) = "OnArc" =>
        HasSqrt(norm_squared(VSub(point, arc.circle.center)))

Exact(segments, point) ==
    \A i \in 1..Len(segments) :
        segments[i].kind = "Arc" => ArcExact(segments[i], point)

MoveDistances == {R(1), Num(1, 2)}

NoQuery == [op |-> "none", path |-> <<>>, point |-> P(0, 0)]

Query(op, path, point) == [op |-> op, path |-> path, point |-> point]

PathProjectQuery(path, point) ==
    /\ gq = NoQuery
    /\ Exact(path, point)
    /\ gq' = Query("Path.project", path, point)
    /\ gout' = PathProject(path, point)
    /\ UNCHANGED <<planVars, nan_sign, walkVars, lossVars, partialVars, clampVars, angleVars>>

PathProgressQuery(path, point) ==
    /\ gq = NoQuery
    /\ Measurable(path)
    /\ Exact(path, point)
    /\ gq' = Query("Path.progress", path, point)
    /\ gout' = PathProgress(path, point)
    /\ UNCHANGED <<planVars, nan_sign, walkVars, lossVars, partialVars, clampVars, angleVars>>

PathForwardQuery(path, point) ==
    /\ gq = NoQuery
    /\ Measurable(path)
    /\ Exact(path, point)
    /\ gq' = Query("Path.forward", path, point)
    /\ gout' = PathForward(path, point)
    /\ UNCHANGED <<planVars, nan_sign, walkVars, lossVars, partialVars, clampVars, angleVars>>

LineProjectQuery(segment, point) ==
    /\ gq = NoQuery
    /\ gq' = Query("LineSegment.project", <<segment>>, point)
    /\ gout' = Returned(LineProject(segment, point))
    /\ UNCHANGED <<planVars, nan_sign, walkVars, lossVars, partialVars, clampVars, angleVars>>

\* The segments whose length is rational: the progress along them is exact.
ProgressSegments ==
    {segment \in LineSegments : Measurable(<<segment>>)}
        \cup {LineSegment(P(0, 0), P(3, 4)), LineSegment(P(3, 0), P(-1, 3)),
              LineSegment(P(2, 2), P(-1, -2))}

LineProgressQuery(segment, point) ==
    /\ gq = NoQuery
    /\ gq' = Query("LineSegment.progress", <<segment>>, point)
    /\ gout' = Returned(<<LineProgress(segment, point)>>)
    /\ UNCHANGED <<planVars, nan_sign, walkVars, lossVars, partialVars, clampVars, angleVars>>

ArcProjectQuery(arc, point) ==
    /\ gq = NoQuery
    /\ ArcExact(arc, point)
    /\ gq' = Query("Arc.project", <<arc>>, point)
    /\ gout' = Returned(ArcProject(arc, point))
    /\ UNCHANGED <<planVars, nan_sign, walkVars, lossVars, partialVars, clampVars, angleVars>>

ArcProgressQuery(arc, point) ==
    /\ gq = NoQuery
    /\ gq' = Query("Arc.progress", <<arc>>, point)
    /\ gout' = Returned(<<ArcProgress(arc, point)>>)
    /\ UNCHANGED <<planVars, nan_sign, walkVars, lossVars, partialVars, clampVars, angleVars>>

ArcForwardQuery(arc, point) ==
    /\ gq = NoQuery
    /\ ArcExact(arc, point)
    /\ gq' = Query("Arc.forward", <<arc>>, point)
    /\ gout' = Returned(ArcForward(arc, point))
    /\ UNCHANGED <<planVars, nan_sign, walkVars, lossVars, partialVars, clampVars, angleVars>>

MoveAlongForward(segment, point, distance) ==
    /\ gq = NoQuery
    /\ Measurable(<<segment>>)
    /\ Exact(<<segment>>, point)
    /\ \E moved \in {VAdd(point, VScale(SegmentForward(segment, point), distance))} :
           /\ gq' = Query("PathSegment.forward", <<segment>>, point)
           /\ gout' = Returned([moved |-> moved,
                                before |-> SegmentProgress(segment, point),
                                after |-> SegmentProgress(segment, moved)])
    /\ UNCHANGED <<planVars, nan_sign, walkVars, lossVars, partialVars, clampVars, angleVars>>

ArcLengthQuery(circle, start, end) ==
    /\ gq = NoQuery
    /\ gq' = Query("Arc.length", <<Arc(circle, start, end, "Counterclockwise"),
                                   Arc(circle, start, end, "Clockwise")>>,
                   circle.center)
    /\ gout' = Returned(<<ArcLength(Arc(circle, start, end, "Counterclockwise")),
                          ArcLength(Arc(circle, start, end, "Clockwise"))>>)
    /\ UNCHANGED <<planVars, nan_sign, walkVars, lossVars, partialVars, clampVars, angleVars>>

ForgetQuery ==
    /\ gq # NoQuery
    /\ gq' = NoQuery
    /\ gout' = Returned(<<>>)
    /\ UNCHANGED <<planVars, nan_sign, walkVars, lossVars, partialVars, clampVars, angleVars>>

(***************************************************************************)
(* Construction of the walk-volume coefficients.                           *)
(***************************************************************************)
ExtentVals == {R(0), R(1), R(2), Num(1, 2)}

Exponents == {Num(3, 2), R(2)}

NoExtents == [extents |-> <<>>, translation_exponent |-> R(1), rotation_exponent |-> R(1)]

FromExtents(extents, translation_exponent, rotation_exponent) ==
    /\ wext = NoExtents
    /\ wext' = [extents |-> extents, translation_exponent |-> translation_exponent,
                rotation_exponent |-> rotation_exponent]
    /\ wout' = from_extents_and_exponents(extents, translation_exponent,
                                          rotation_exponent)
    /\ UNCHANGED <<planVars, nan_sign, geomVars, lossVars, partialVars, clampVars, angleVars>>

ForgetCoefficients ==
    /\ wext # NoExtents
    /\ wext' = NoExtents
    /\ wout' = Returned(<<>>)
    /\ UNCHANGED <<planVars, nan_sign, geomVars, lossVars, partialVars, clampVars, angleVars>>

(***************************************************************************)
(* Evaluations of smoothmin and of the loss fields.                        *)
(***************************************************************************)
SmoothArgs == {Num(i, 2) : i \in (-2)..8}

SmoothMaxima == {R(1), R(2), R(3)}

Smoothnesses == {Num(1, 2), R(1), R(2)}

LinePaths == {path \in Paths : \A i \in 1..Len(path) : path[i].kind = "LineSegment"}

NoLossQuery == [op |-> "none", args |-> <<>>]

LossQuery(op, args) == [op |-> op, args |-> args]

SmoothminQuery(x, max, smoothness) ==
    /\ lq.op = "none"
    /\ lq' = LossQuery("smoothmin", <<x, max, smoothness>>)
    /\ lout' = Returned(<<smoothmin(x, max, smoothness)>>)
    /\ UNCHANGED <<planVars, nan_sign, geomVars, walkVars, partialVars, clampVars, angleVars>>

SmoothminDerivativeQuery(x, max, smoothness) ==
    /\ lq.op = "none"
    /\ lq' = LossQuery("smoothmin_derivative", <<x, max, smoothness>>)
    /\ lout' = Returned(<<smoothmin_derivative(x, max, smoothness)>>)
    /\ UNCHANGED <<planVars, nan_sign, geomVars, walkVars, partialVars, clampVars, angleVars>>

PathDistanceLossQuery(path, point) ==
    /\ lq.op = "none"
    /\ Exact(path, point)
    /\ lq' = LossQuery("PathDistanceField.loss", <<path, point>>)
    /\ lout' = PathDistanceLoss(path, point)
    /\ UNCHANGED <<planVars, nan_sign, geomVars, walkVars, partialVars, clampVars, angleVars>>

PathDistanceGradQuery(path, point) ==
    /\ lq.op = "none"
    /\ Exact(path, point)
    /\ lq' = LossQuery("PathDistanceField.grad", <<path, point>>)
    /\ lout' = PathDistanceGrad(path, point)
    /\ UNCHANGED <<planVars, nan_sign, geomVars, walkVars, partialVars, clampVars, angleVars>>

PathProgressLossQuery(path, smoothness, point) ==
    /\ lq.op = "none"
    /\ Measurable(path)
    /\ lq' = LossQuery("PathProgressField.loss", <<path, point, smoothness>>)
    /\ lout' = PathProgressLoss(path, smoothness, point)
    /\ UNCHANGED <<planVars, nan_sign, geomVars, walkVars, partialVars, clampVars, angleVars>>

PathProgressGradQuery(path, smoothness, point) ==
    /\ lq.op = "none"
    /\ Measurable(path)
    /\ lq' = LossQuery("PathProgressField.grad", <<path, point, smoothness>>)
    /\ lout' = PathProgressGrad(path, smoothness, point)
    /\ UNCHANGED <<planVars, nan_sign, geomVars, walkVars, partialVars, clampVars, angleVars>>

ForgetLossQuery ==
    /\ lq.op # "none"
    /\ lq' = NoLossQuery
    /\ lout' = Returned(<<>>)
    /\ UNCHANGED <<planVars, nan_sign, geomVars, walkVars, partialVars, clampVars, angleVars>>

(***************************************************************************)
(* crates/partial and crates/partial_derive: Partial::apply_partial.       *)
(* A type that implements Partial is either a leaf, whose partial is the   *)
(* type itself (impl_partial_as_identity), or a struct that derives        *)
(* Partial, whose partial has one Option<partial of the field type> per    *)
(* field.  A struct value is a function from field identifiers to values.  *)
(***************************************************************************)
None == [some |-> FALSE]
Some(x) == [some |-> TRUE, value |-> x]
Option(S) == {None} \cup {Some(x) : x \in S}

usize == [name |-> "usize", kind |-> "leaf", fields |-> <<>>]
Struct(name, fields) == [name |-> name, kind |-> "struct", fields |-> fields]
Field(ident, ty) == [ident |-> ident, ty |-> ty]

\* tests.rs: struct Bar { field3: usize } and struct Foo { field1: usize, field2: Bar };
\* Baz is a struct that derives Partial and holds one Foo.
Bar == Struct("Bar", <<Field("field3", usize)>>)
Foo == Struct("Foo", <<Field("field1", usize), Field("field2", Bar)>>)
Baz == Struct("Baz", <<Field("field4", Foo)>>)

PartialTypes == {usize, Bar, Foo, Baz}

UsizeValues == {0, 33, 42}

Idents(ty) == {ty.fields[i].ident : i \in DOMAIN ty.fields}
FieldTy(ty, ident) == ty.fields[CHOOSE i \in DOMAIN ty.fields : ty.fields[i].ident = ident].ty

EmptyStruct == [ident \in {} |-> 0]
With(struct, ident, value) ==
    [x \in DOMAIN struct \cup {ident} |-> IF x = ident THEN value ELSE struct[x]]

\* The values of a type.
RECURSIVE Values(_)
Values(ty) ==
    IF ty.kind = "leaf" THEN UsizeValues
    ELSE IF ty.fields = <<>> THEN {EmptyStruct}
    ELSE {With(rest, Head(ty.fields).ident, value) :
              rest \in Values(Struct(ty.name, Tail(ty.fields))),
              value \in Values(Head(ty.fields).ty)}

\* The values of <ty as Partial>::Partial: the generated struct has a field
\* `ident: Option<<field type as Partial>::Partial>` for every field.
RECURSIVE Partials(_)
Partials(ty) ==
    IF ty.kind = "leaf" THEN UsizeValues
    ELSE IF ty.fields = <<>> THEN {EmptyStruct}
    ELSE {With(rest, Head(ty.fields).ident, option) :
              rest \in Partials(Struct(ty.name, Tail(ty.fields))),
              option \in Option(Partials(Head(ty.fields).ty))}

RECURSIVE DefaultOf(_)
DefaultOf(ty) ==
    IF ty.kind = "leaf" THEN 0
    ELSE [ident \in Idents(ty) |-> DefaultOf(FieldTy(ty, ident))]

\* Mutant of apply_partial: a Some of a nested struct is applied to a default
\* value of the field instead of the field, which resets the unnamed siblings.
RECURSIVE apply_partial_from_default(_, _, _)
apply_partial_from_default(self, partial, ty) ==
    IF ty.kind = "leaf" THEN partial
    ELSE [ident \in Idents(ty) |->
              IF partial[ident].some
              THEN apply_partial_from_default(DefaultOf(FieldTy(ty, ident)),
                                              partial[ident].value, FieldTy(ty, ident))
              ELSE self[ident]]

\* Partial::apply_partial: `*self = partial` for a leaf; for a derived struct
\* one `if let Some(ident) = partial.ident { self.ident.apply_partial(ident) }`
\* per field.
RECURSIVE apply_partial(_, _, _)
apply_partial(self, partial, ty) ==
    IF ty.kind = "leaf" THEN partial
    ELSE [ident \in Idents(ty) |->
              IF partial[ident].some
              THEN apply_partial(self[ident], partial[ident].value, FieldTy(ty, ident))
              ELSE self[ident]]

Full(ty, value) == [ty |-> ty, value |-> value]

\* let mut full = full_orig.clone();
Construct(ty, value) ==
    /\ full_orig' = Full(ty, value)
    /\ full' = Full(ty, value)
    /\ applied' = None
    /\ UNCHANGED <<planVars, nan_sign, geomVars, walkVars, lossVars, clampVars, angleVars>>

\* full.apply_partial(partial);
ApplyPartial(partial) ==
    /\ full_orig' = full
    /\ full' = Full(full.ty, apply_partial(full.value, partial, full.ty))
    /\ applied' = Some(partial)
    /\ UNCHANGED <<planVars, nan_sign, geomVars, walkVars, lossVars, clampVars, angleVars>>

(***************************************************************************)
(* f32 arithmetic of crates/vision: IEEE 754 binary32 with round to        *)
(* nearest, ties to even.  A finite number is s * m * 2^e with s the sign, *)
(* m the 24-bit significand (2^23 <= m < 2^24, or 0 for zero) and e the    *)
(* exponent of its last bit; the exponent range is not bounded (no         *)
(* overflow to infinity, no subnormals) and zero has no sign.              *)
(***************************************************************************)
Num32(s, m, e) == [k |-> "num", s |-> s, m |-> m, e |-> e]
Zero32 == Num32(1, 0, 0)
Inf32(s) == [k |-> "inf", s |-> s, m |-> 0, e |-> 0]
NaN32 == [k |-> "nan", s |-> 1, m |-> 0, e |-> 0]

RECURSIVE BitLen(_)
BitLen(i) == IF i = 0 THEN 0 ELSE 1 + BitLen(i \div 2)

\* The binary32 nearest to s * (i + f) * 2^e, where 0 < f < 1 if sticky and
\* f = 0 otherwise.
Round32(s, i, e, sticky) ==
    IF i = 0 THEN Zero32
    ELSE \* bound once: the length of i
         CHOOSE r \in
             {IF len <= 24 THEN Num32(s, i * 2^(24 - len), e - (24 - len))
              ELSE CHOOSE n \in
                       {IF q + 1 = 2^24 /\ up THEN Num32(s, 2^23, e + len - 23)
                        ELSE Num32(s, IF up THEN q + 1 ELSE q, e + len - 24) :
                            q \in {i \div 2^(len - 24)},
                            up \in {IF i % 2^(len - 24) > 2^(len - 25) THEN TRUE
                                    ELSE IF i % 2^(len - 24) < 2^(len - 25) THEN FALSE
                                    ELSE IF sticky THEN TRUE
                                    ELSE (i \div 2^(len - 24)) % 2 = 1}} : TRUE :
                  len \in {BitLen(i)}} : TRUE

\* i as f32, for an integer i.
F32(i) == Round32(IF i < 0 THEN -1 ELSE 1, IF i < 0 THEN -i ELSE i, 0, FALSE)

\* a + b for finite a and b whose exponents satisfy a.e >= b.e.
AddAligned(a, b) ==
    IF a.e - b.e <= 6
    THEN CHOOSE r \in
             {Round32(IF sum < 0 THEN -1 ELSE 1, IF sum < 0 THEN -sum ELSE sum, b.e, FALSE) :
                  sum \in {a.s * a.m * 2^(a.e - b.e) + b.s * b.m}} : TRUE
    ELSE CHOOSE r \in
             {Round32(a.s,
                      IF a.s = b.s THEN a.m * 64 + low
                      ELSE IF sticky THEN a.m * 64 - low - 1 ELSE a.m * 64 - low,
                      a.e - 6, sticky) :
                  low \in {IF a.e - b.e - 6 >= 25 THEN 0 ELSE b.m \div 2^(a.e - b.e - 6)},
                  sticky \in {IF a.e - b.e - 6 >= 25 THEN TRUE
                              ELSE b.m % 2^(a.e - b.e - 6) # 0}} : TRUE

AddImpl(a, b) ==
    IF a.k = "nan" THEN NaN32
    ELSE IF b.k = "nan" THEN NaN32
    ELSE IF a.k = "inf" THEN (IF b.k = "inf" /\ b.s # a.s THEN NaN32 ELSE a)
    ELSE IF b.k = "inf" THEN b
    ELSE IF a.m = 0 THEN b
    ELSE IF b.m = 0 THEN a
    ELSE IF a.e >= b.e THEN AddAligned(a, b)
    ELSE AddAligned(b, a)

\* The 48-bit product of two significands as <<high, low>> with
\* product = high * 2^24 + low.
WideProduct(m1, m2) ==
    CHOOSE p \in
        {<<(m1 \div 4096) * (m2 \div 4096) + mid \div 4096
               + ((mid % 4096) * 4096 + (m1 % 4096) * (m2 % 4096)) \div 2^24,
           ((mid % 4096) * 4096 + (m1 % 4096) * (m2 % 4096)) % 2^24>> :
             mid \in {(m1 \div 4096) * (m2 % 4096) + (m1 % 4096) * (m2 \div 4096)}} : TRUE

MulImpl(a, b) ==
    IF a.k = "nan" THEN NaN32
    ELSE IF b.k = "nan" THEN NaN32
    ELSE IF a.k = "inf" THEN (IF b.k = "num" /\ b.m = 0 THEN NaN32 ELSE Inf32(a.s * b.s))
    ELSE IF b.k = "inf" THEN (IF a.m = 0 THEN NaN32 ELSE Inf32(a.s * b.s))
    ELSE IF a.m = 0 THEN Zero32
    ELSE IF b.m = 0 THEN Zero32
    ELSE CHOOSE r \in
             {Round32(a.s * b.s, p[1] * 64 + p[2] \div 2^18, a.e + b.e + 18,
                      p[2] % 2^18 # 0) : p \in {WideProduct(a.m, b.m)}} : TRUE

\* n more bits of the quotient by long division: <<quotient, remainder>>.
RECURSIVE DivBits(_, _, _, _)
DivBits(q, r, m, n) ==
    IF n = 0 THEN <<q, r>>
    ELSE IF 2 * r >= m THEN DivBits(2 * q + 1, 2 * r - m, m, n - 1)
    ELSE DivBits(2 * q, 2 * r, m, n - 1)

DivImpl(a, b) ==
    IF a.k = "nan" THEN NaN32
    ELSE IF b.k = "nan" THEN NaN32
    ELSE IF a.k = "inf" THEN (IF b.k = "inf" THEN NaN32 ELSE Inf32(a.s * b.s))
    ELSE IF b.k = "inf" THEN Zero32
    ELSE IF b.m = 0 THEN (IF a.m = 0 THEN NaN32 ELSE Inf32(a.s))
    ELSE IF a.m = 0 THEN Zero32
    ELSE CHOOSE r \in
             {Round32(a.s * b.s, d[1], a.e - b.e - 26, d[2] # 0) :
                  d \in {DivBits(a.m \div b.m, a.m % b.m, b.m, 26)}} : TRUE

MagnitudeLess(a, b) ==
    IF a.e < b.e THEN TRUE ELSE IF a.e > b.e THEN FALSE ELSE a.m < b.m

LtImpl(a, b) ==
    IF a.k = "nan" THEN FALSE
    ELSE IF b.k = "nan" THEN FALSE
    ELSE IF a.k = "inf" THEN (IF a.s = 1 THEN FALSE ELSE IF b.k = "inf" THEN b.s = 1 ELSE TRUE)
    ELSE IF b.k = "inf" THEN b.s = 1
    ELSE IF a.m = 0 THEN (IF b.m = 0 THEN FALSE ELSE b.s = 1)
    ELSE IF b.m = 0 THEN a.s = -1
    ELSE IF a.s # b.s THEN a.s < b.s
    ELSE IF a.s = 1 THEN MagnitudeLess(a, b)
    ELSE MagnitudeLess(b, a)

Neg32(a) == IF a.k = "num" /\ a.m = 0 THEN a ELSE [a EXCEPT !.s = -a.s]

\* The f32 operators +, -, *, / and <.
F32Add(a, b) == CHOOSE r \in {AddImpl(x, y) : x \in {a}, y \in {b}} : TRUE
F32Sub(a, b) == CHOOSE r \in {AddImpl(x, Neg32(y)) : x \in {a}, y \in {b}} : TRUE
F32Mul(a, b) == CHOOSE r \in {MulImpl(x, y) : x \in {a}, y \in {b}} : TRUE
F32Div(a, b) == CHOOSE r \in {DivImpl(x, y) : x \in {a}, y \in {b}} : TRUE
F32Lt(a, b) == CHOOSE r \in {LtImpl(x, y) : x \in {a}, y \in {b}} : TRUE
F32Le(a, b) == CHOOSE r \in {LtImpl(x, y) \/ (x.k # "nan" /\ x = y) : x \in {a}, y \in {b}} : TRUE

(***************************************************************************)
(* crates/vision/src/axis_aligned_clamping.rs.                             *)
(***************************************************************************)
Axis == {"X", "Y"}
ClampDirection == {"Min", "Max"}

\* point![x, y] of Point2<Pixel>, the tuple struct LineSegment<Pixel>(p0, p1)
\* (fields .0 and .1 are [1] and [2]) and Rectangle<Pixel> { min, max }.
Pixel(x, y) == [x |-> x, y |-> y]
PixelSegment(p0, p1) == <<p0, p1>>
Rectangle(min, max) == [min |-> min, max |-> max]

Along(point, axis) == IF axis = "X" THEN point.x ELSE point.y

is_outside(point, axis, direction, value) ==
    IF direction = "Max" THEN F32Lt(value, Along(point, axis))
    ELSE F32Lt(Along(point, axis), value)

\* let direction = line.1 - line.0;
LineDirection(line) == Pixel(F32Sub(line[2].x, line[1].x), F32Sub(line[2].y, line[1].y))

line_axis_intersection(axis, value, line) ==
    CHOOSE intersection \in
        {CHOOSE point \in
             {Pixel(F32Add(line[1].x, F32Mul(direction.x, t)),
                    F32Add(line[1].y, F32Mul(direction.y, t))) :
                  t \in {F32Div(F32Sub(value, Along(line[1], axis)),
                                Along(direction, axis))}} : TRUE :
             direction \in {LineDirection(line)}} : TRUE

\* Some(segment) as clamp_to_axis returns it, with the lines that
\* line_axis_intersection was evaluated on while computing it.
Clamped(segment, lines) == [some |-> TRUE, value |-> segment, intersected |-> lines]

\* Mutant of clamp_to_axis: the first endpoint is replaced by the
\* intersection also when it is not outside.
clamp_to_axis_always(self, axis, direction, value) ==
    IF is_outside(self[2], axis, direction, value)
    THEN IF is_outside(self[1], axis, direction, value) THEN None
         ELSE Clamped(PixelSegment(self[1], line_axis_intersection(axis, value, self)),
                      <<self>>)
    ELSE Clamped(PixelSegment(line_axis_intersection(axis, value, self), self[2]), <<self>>)

clamp_to_axis(self, axis, direction, value) ==
    IF is_outside(self[1], axis, direction, value)
    THEN IF is_outside(self[2], axis, direction, value) THEN None
         ELSE Clamped(PixelSegment(line_axis_intersection(axis, value, self), self[2]),
                      <<self>>)
    ELSE IF is_outside(self[2], axis, direction, value)
         THEN Clamped(PixelSegment(self[1], line_axis_intersection(axis, value, self)),
                      <<self>>)
         ELSE Clamped(self, <<>>)

\* The `?` operator: None is returned at once.
Try(option, axis, direction, value) ==
    CHOOSE r \in {IF o.some THEN clamp_to_axis(o.value, axis, direction, value) ELSE None :
                      o \in {option}} : TRUE

clamp_to_axis_range(self, axis, min, max) ==
    Try(clamp_to_axis(self, axis, "Min", min), axis, "Max", max)

clamp_to_rect(self, rect) ==
    CHOOSE r \in
        {IF o.some THEN clamp_to_axis_range(o.value, "Y", rect.min.y, rect.max.y) ELSE None :
             o \in {clamp_to_axis_range(self, "X", rect.min.x, rect.max.x)}} : TRUE

\* What each of the four clamp_to_axis calls of clamp_to_rect returns, None
\* for a call that the `?` operator skips.
ClampStages(self, rect) ==
    CHOOSE stages \in
        {CHOOSE from_x_max \in
             {CHOOSE from_y_min \in
                  {<<x_min, x_max, y_min, Try(y_min, "Y", "Max", rect.max.y)>> :
                       y_min \in {Try(x_max, "Y", "Min", rect.min.y)}} : TRUE :
                  x_max \in {Try(x_min, "X", "Max", rect.max.x)}} : TRUE :
             x_min \in {clamp_to_axis(self, "X", "Min", rect.min.x)}} : TRUE

ClampCall(axis, direction, value) == [axis |-> axis, direction |-> direction, value |-> value]

StageCalls(rect) ==
    <<ClampCall("X", "Min", rect.min.x), ClampCall("X", "Max", rect.max.x),
      ClampCall("Y", "Min", rect.min.y), ClampCall("Y", "Max", rect.max.y)>>

NoClamp == [op |-> "none", self |-> <<>>, calls |-> <<>>, stages |-> <<>>]

\* self.clamp_to_axis(axis, direction, value)
ClampToAxisQuery(self, axis, direction, value) ==
    /\ \E clamped \in {clamp_to_axis(self, axis, direction, value)} :
           /\ cq' = [op |-> "clamp_to_axis", self |-> self,
                     calls |-> <<ClampCall(axis, direction, value)>>,
                     stages |-> <<clamped>>]
           /\ cout' = clamped
    /\ UNCHANGED <<planVars, nan_sign, geomVars, walkVars, lossVars, partialVars, angleVars>>

\* self.clamp_to_rect(rect)
ClampToRectQuery(self, rect) ==
    /\ cq' = [op |-> "clamp_to_rect", self |-> self, calls |-> StageCalls(rect),
              stages |-> ClampStages(self, rect)]
    /\ cout' = clamp_to_rect(self, rect)
    /\ UNCHANGED <<planVars, nan_sign, geomVars, walkVars, lossVars, partialVars, angleVars>>

ForgetClamp ==
    /\ cq.op # "none"
    /\ cq' = NoClamp
    /\ cout' = None
    /\ UNCHANGED <<planVars, nan_sign, geomVars, walkVars, lossVars, partialVars, angleVars>>

\* Pixel coordinates of the queries: those of test_aa_clamping and the
\* integers around the rectangle of the test.
TestPoints ==
    {<<1, 1>>, <<4, 2>>, <<6, 1>>, <<3, -2>>, <<7, 1>>, <<1, 6>>, <<4, -3>>, <<10, -3>>,
     <<-5, 6>>, <<-3, -3>>, <<4, 1>>, <<5, 3>>, <<0, 0>>, <<2, 5>>, <<-1, -3>>, <<6, 6>>}
PixelPoints == {Pixel(F32(c[1]), F32(c[2])) : c \in TestPoints}
PixelSegments == {PixelSegment(p0, p1) : p0, p1 \in PixelPoints}
Rectangles ==
    {Rectangle(Pixel(F32(0), F32(0)), Pixel(F32(5), F32(3))),
     Rectangle(Pixel(F32(2), F32(1)), Pixel(F32(2), F32(1)))}
\* clamp_to_axis is also asked about endpoints that are not finite.
NonFinitePoints ==
    {Pixel(Inf32(1), F32(1)), Pixel(Inf32(-1), NaN32), Pixel(NaN32, F32(6))}
AxisSegments ==
    PixelSegments \cup {PixelSegment(p0, p1) : p0 \in NonFinitePoints, p1 \in PixelPoints}
        \cup {PixelSegment(p0, p1) : p0 \in PixelPoints, p1 \in NonFinitePoints}
ClampValues == {F32(0), F32(3), F32(5)}

(***************************************************************************)
(* Angle<f32>: the operations of geometry/angle.rs in f32 arithmetic, with *)
(* the three directions of crates/geometry.  The exact angles above leave  *)
(* rounding out; here every operation rounds as the program does.          *)
(***************************************************************************)
\* std::f32::consts::{FRAC_PI_2, PI, TAU}; T::two_pi() is TAU.
FRAC_PI_2_32 == Num32(1, 13176795, -23)
PI32 == Num32(1, 13176795, -22)
TAU32 == Num32(1, 13176795, -21)

GeometryDirections == {"Clockwise", "Counterclockwise", "Colinear"}

\* (m * 2^n) % d without forming m * 2^n.
RECURSIVE ShiftedRem(_, _, _)
ShiftedRem(m, n, d) == IF n = 0 THEN m % d ELSE ShiftedRem((2 * (m % d)) % d, n - 1, d)

\* The f32 operator %: the remainder of the truncating division, which is
\* exact and has the sign of the dividend.
RemImpl(a, b) ==
    IF a.k = "nan" THEN NaN32
    ELSE IF b.k = "nan" THEN NaN32
    ELSE IF a.k = "inf" THEN NaN32
    ELSE IF b.k = "inf" THEN a
    ELSE IF b.m = 0 THEN NaN32
    ELSE IF a.m = 0 THEN a
    ELSE IF a.e < b.e THEN a
    ELSE Round32(a.s, ShiftedRem(a.m, a.e - b.e, b.m), b.e, FALSE)

F32Rem(a, b) == CHOOSE r \in {RemImpl(x, y) : x \in {a}, y \in {b}} : TRUE

\* f32::rem_euclid: let r = self % rhs; if r < 0.0 { r + rhs.abs() } else { r }
rem_euclid(self, rhs) ==
    CHOOSE folded \in
        {IF F32Lt(r, Zero32) THEN F32Add(r, IF rhs.k = "nan" THEN rhs ELSE [rhs EXCEPT !.s = 1])
         ELSE r : r \in {F32Rem(self, rhs)}} : TRUE

\* Angle::normalized
normalized32(angle) == rem_euclid(angle, TAU32)

\* Direction::angle_sign of crates/geometry
angle_sign32(direction) ==
    CASE direction = "Clockwise" -> Neg32(F32(1))
      [] direction = "Counterclockwise" -> F32(1)
      [] OTHER -> F32(0)

\* Angle::angle_to
angle_to32(from, to, direction) ==
    normalized32(F32Mul(F32Sub(to, from), angle_sign32(direction)))

\* The f32 operator ==.
F32Eq(a, b) == CHOOSE r \in {x.k # "nan" /\ x = y : x \in {a}, y \in {b}} : TRUE

\* impl PartialEq for Angle
AngleEq(a, b) == F32Eq(normalized32(a), normalized32(b))

NoAngleQuery == [op |-> "none", from |-> Zero32, to |-> Zero32, direction |-> "Colinear"]

\* from.angle_to(to, direction)
AngleToQuery(from, to, direction) ==
    /\ aq' = [op |-> "angle_to", from |-> from, to |-> to, direction |-> direction]
    /\ aout' = angle_to32(from, to, direction)
    /\ UNCHANGED <<planVars, nan_sign, geomVars, walkVars, lossVars, partialVars, clampVars>>

\* a == b
AngleEqQuery(a, b) ==
    /\ aq' = [op |-> "eq", from |-> a, to |-> b, direction |-> "Colinear"]
    /\ aout' = AngleEq(a, b)
    /\ UNCHANGED <<planVars, nan_sign, geomVars, walkVars, lossVars, partialVars, clampVars>>

ForgetAngle ==
    /\ aq.op # "none"
    /\ aq' = NoAngleQuery
    /\ aout' = Zero32
    /\ UNCHANGED <<planVars, nan_sign, geomVars, walkVars, lossVars, partialVars, clampVars>>

\* Angles of the queries: multiples of a quarter turn, angles of a few
\* radians and angles within a rounding step of zero.
Angles32 ==
    {Zero32, FRAC_PI_2_32, PI32, TAU32, Neg32(FRAC_PI_2_32), Neg32(TAU32),
     F32(1), F32(-1), F32(3), F32(7), F32(-7), F32(13),
     Num32(1, 2^23, -50), Num32(-1, 2^23, -50), Num32(1, 2^23, -23)}

(***************************************************************************)
(* Specifications.                                                         *)
(***************************************************************************)
Idle ==
    /\ pc = "idle"
    /\ call = NoCall
    /\ param = <<>>
    /\ iter = 0
    /\ runs = 0
    /\ solver = IdleSolver
    /\ result = NoResult
    /\ gq = NoQuery
    /\ gout = Returned(<<>>)
    /\ wext = NoExtents
    /\ wout = Returned(<<>>)
    /\ lq = NoLossQuery
    /\ lout = Returned(<<>>)
    /\ full_orig = Full(usize, 0)
    /\ applied = None
    /\ full = Full(usize, 0)
    /\ cq = NoClamp
    /\ cout = None
    /\ aq = NoAngleQuery
    /\ aout = Zero32

Init == Idle /\ nan_sign = 1

Next ==
    \/ /\ pc = "idle"
       /\ \E b \in Buffers, p \in InitialPoses, f \in Side : Rollout(b, p, f)
    \/ /\ pc = "idle"
       /\ \E path \in PlannerPaths, p \in InitialPoses, f \in Side :
              PlanStepsCall(path, p, f)
    \/ SolverIterate
    \/ \E has_best \in BOOLEAN : SolverTerminate(has_best)
    \/ \E e \in SolverErrors : SolverFail(e)
    \/ PlanStepsReturn
    \/ Forget

Spec == Init /\ [][Next]_vars

InitGeom == Idle /\ nan_sign \in {-1, 1}

NextGeom ==
    \/ /\ gq = NoQuery
       /\ \E path \in Paths, q \in QueryPoints : PathProjectQuery(path, q)
    \/ /\ gq = NoQuery
       /\ \E path \in Paths, q \in QueryPoints : PathProgressQuery(path, q)
    \/ /\ gq = NoQuery
       /\ \E path \in Paths, q \in QueryPoints : PathForwardQuery(path, q)
    \/ /\ gq = NoQuery
       /\ \E s \in LineSegments, q \in QueryPoints : LineProjectQuery(s, q)
    \/ /\ gq = NoQuery
       /\ \E s \in PathSegments, q \in QueryPoints, distance \in MoveDistances :
              MoveAlongForward(s, q, distance)
    \/ ForgetQuery

SpecGeom == InitGeom /\ [][NextGeom]_vars

NextLine ==
    \/ /\ gq = NoQuery
       /\ \E segment \in LineSegments, q \in QueryPoints : LineProjectQuery(segment, q)
    \/ /\ gq = NoQuery
       /\ \E segment \in ProgressSegments, q \in QueryPoints : LineProgressQuery(segment, q)
    \/ ForgetQuery

SpecLine == InitGeom /\ [][NextLine]_vars

NextArc ==
    \/ /\ gq = NoQuery
       /\ \E arc \in Arcs, q \in QueryPoints : ArcProjectQuery(arc, q)
    \/ /\ gq = NoQuery
       /\ \E arc \in Arcs, q \in QueryPoints : ArcProgressQuery(arc, q)
    \/ /\ gq = NoQuery
       /\ \E arc \in Arcs, q \in QueryPoints : ArcForwardQuery(arc, q)
    \/ /\ gq = NoQuery
       /\ \E r \in LengthRadii, start \in StartAngles, sweep \in Sweeps :
              ArcLengthQuery(Circle(P(1, 1), r), start, Angle(start.q + sweep))
    \/ ForgetQuery

SpecArc == InitGeom /\ [][NextArc]_vars

NextLoss ==
    \/ /\ lq.op = "none"
       /\ \E x \in SmoothArgs, max \in SmoothMaxima, h \in Smoothnesses :
              SmoothminQuery(x, max, h)
    \/ /\ lq.op = "none"
       /\ \E x \in SmoothArgs, max \in SmoothMaxima, h \in Smoothnesses :
              SmoothminDerivativeQuery(x, max, h)
    \/ /\ lq.op = "none"
       /\ \E path \in Paths, q \in QueryPoints : PathDistanceLossQuery(path, q)
    \/ /\ lq.op = "none"
       /\ \E path \in Paths, q \in QueryPoints : PathDistanceGradQuery(path, q)
    \/ /\ lq.op = "none"
       /\ \E path \in LinePaths, h \in Smoothnesses, q \in QueryPoints :
              PathProgressLossQuery(path, h, q)
    \/ /\ lq.op = "none"
       /\ \E path \in LinePaths, h \in Smoothnesses, q \in QueryPoints :
              PathProgressGradQuery(path, h, q)
    \/ ForgetLossQuery

SpecLoss == InitGeom /\ [][NextLoss]_vars

(***************************************************************************)
(* Evaluations of the step-size field: the coefficients are built from     *)
(* extents as the planner builds them, then costs, loss and grad are       *)
(* evaluated at one step of one support foot.                              *)
(***************************************************************************)
SizeExtents ==
    {WalkVolumeExtents(f, R(4), o, i, orot, R(1)) :
        f \in {R(0), R(1)}, o \in {R(1), R(4)},
        i \in {R(0), R(1), R(4)}, orot \in {R(4)}}

SizeValues == {R(-1), NegZero, R(0), R(1)}

SizeSteps == {Step(f, l, t) : f \in SizeValues, l \in SizeValues, t \in SizeValues}

Coefficients(extents, t, r) == from_extents_and_exponents(extents, t, r).value

CostsQuery(extents, t, r, step, support_foot) ==
    /\ lq' = LossQuery("costs", <<extents, t, r, step, support_foot>>)
    /\ \E coefficients \in {Coefficients(extents, t, r)} :
           lout' = Returned(costs(coefficients, step, support_foot))
    /\ UNCHANGED <<planVars, nan_sign, geomVars, walkVars, partialVars, clampVars, angleVars>>

StepSizeLossQuery(extents, t, r, step, support_foot) ==
    /\ lq' = LossQuery("StepSizeField.loss", <<extents, t, r, step, support_foot>>)
    /\ \E coefficients \in {Coefficients(extents, t, r)} :
           /\ WalkVolumeExact(coefficients, step, support_foot)
           /\ lout' = Returned(<<StepSizeLoss(coefficients, step, support_foot)>>)
    /\ UNCHANGED <<planVars, nan_sign, geomVars, walkVars, partialVars, clampVars, angleVars>>

StepSizeGradQuery(extents, t, r, step, support_foot) ==
    /\ lq' = LossQuery("StepSizeField.grad", <<extents, t, r, step, support_foot>>)
    /\ \E coefficients \in {Coefficients(extents, t, r)} :
           /\ WalkVolumeExact(coefficients, step, support_foot)
           /\ lout' = Returned(StepSizeGrad(coefficients, step, support_foot))
    /\ UNCHANGED <<planVars, nan_sign, geomVars, walkVars, partialVars, clampVars, angleVars>>

\* f32 negation flips the sign, of a zero too.
neg(value) == IF IsZero(value) THEN [value EXCEPT !.d = -value.d] ELSE FNeg(value)

\* Mutant of mirrored: the turn keeps its sign.
mirrored_left_only(step) == Step(step.forward, neg(step.left), step.turn)

\* Step::mirrored of crates/types
mirrored(step) == Step(step.forward, neg(step.left), neg(step.turn))

\* step.mirrored()
MirroredQuery(step) ==
    /\ lq' = LossQuery("Step.mirrored", <<step>>)
    /\ lout' = Returned(mirrored(step))
    /\ UNCHANGED <<planVars, nan_sign, geomVars, walkVars, partialVars, clampVars, angleVars>>

NextSize ==
    \/ /\ lq.op = "none"
       /\ \E extents \in SizeExtents, t, r \in Exponents, step \in SizeSteps,
             support_foot \in Side :
              CostsQuery(extents, t, r, step, support_foot)
    \/ /\ lq.op = "none"
       /\ \E extents \in SizeExtents, t, r \in Exponents, step \in SizeSteps,
             support_foot \in Side :
              StepSizeLossQuery(extents, t, r, step, support_foot)
    \/ /\ lq.op = "none"
       /\ \E extents \in SizeExtents, t, r \in Exponents, step \in SizeSteps,
             support_foot \in Side :
              StepSizeGradQuery(extents, t, r, step, support_foot)
    \/ ForgetLossQuery

SpecSize == Init /\ [][NextSize]_vars

NextMirror ==
    \/ /\ lq.op = "none"
       /\ \E extents \in SizeExtents, t, r \in Exponents, step \in SizeSteps,
             support_foot \in Side :
              CostsQuery(extents, t, r, step, support_foot)
    \/ /\ lq.op = "none"
       /\ \E extents \in SizeExtents, t, r \in Exponents, step \in SizeSteps,
             support_foot \in Side :
              StepSizeLossQuery(extents, t, r, step, support_foot)
    \/ /\ lq.op = "none"
       /\ \E step \in SizeSteps : MirroredQuery(step)
    \/ ForgetLossQuery

SpecMirror == Init /\ [][NextMirror]_vars

(***************************************************************************)
(* StepPlanningLossField::loss and ::grad, and the value of                *)
(* StepPlanningProblem::cost: the sum of the losses of the planned steps.  *)
(* The turn of a step and the rotation extents are in quarter turns; the   *)
(* walk volume depends on them through their quotient only.                *)
(***************************************************************************)
StepPlanning(path, initial_pose, initial_support_foot, smoothness, reward, distance, size, coefficients) ==
    [path |-> path, initial_pose |-> initial_pose,
     initial_support_foot |-> initial_support_foot,
     path_progress_smoothness |-> smoothness,
     path_progress_reward |-> reward,
     path_distance_penalty |-> distance,
     step_size_penalty |-> size,
     walk_volume_coefficients |-> coefficients]

\* The f32 components of a planned step.
FloatStep(step) == Step(R(step.forward), R(step.left), R(step.turn))

StepPlanningLoss(field, planned_step) ==
    CHOOSE loss \in
        {IF ~distance_loss.ok THEN distance_loss
         ELSE IF ~progress_loss.ok THEN progress_loss
         ELSE Returned(<<FAdd(FAdd(FMul(distance_loss.value[1], field.path_distance_penalty),
                                   FMul(progress_loss.value[1], field.path_progress_reward)),
                              FMul(step_size_loss, field.step_size_penalty))>>) :
             distance_loss \in {PathDistanceLoss(field.path, PosePoint(planned_step.pose))},
             progress_loss \in {PathProgressLoss(field.path, field.path_progress_smoothness,
                                                 PosePoint(planned_step.pose))},
             step_size_loss \in {StepSizeLoss(field.walk_volume_coefficients,
                                              FloatStep(planned_step.step.step),
                                              planned_step.step.support_foot)}} : TRUE

StepPlanningGrad(field, planned_step) ==
    CHOOSE grad \in
        {IF ~distance.ok THEN distance
         ELSE IF ~progress.ok THEN progress
         ELSE Returned(
                  [pose |-> [position |->
                                 VAdd(VScale(distance.value, field.path_distance_penalty),
                                      VScale(progress.value, field.path_progress_reward)),
                             orientation |-> R(0)],
                   step |-> Step(FMul(size.forward, field.step_size_penalty),
                                 FMul(size.left, field.step_size_penalty),
                                 FMul(size.turn, field.step_size_penalty))]) :
             distance \in {PathDistanceGrad(field.path, PosePoint(planned_step.pose))},
             progress \in {PathProgressGrad(field.path, field.path_progress_smoothness,
                                            PosePoint(planned_step.pose))},
             size \in {StepSizeGrad(field.walk_volume_coefficients,
                                    FloatStep(planned_step.step.step),
                                    planned_step.step.support_foot)}} : TRUE

\* Iterator::sum over the losses of planned[k..]: 0.0 + loss + loss + ...
RECURSIVE SumLosses(_, _, _, _)
SumLosses(field, planned, k, sum) ==
    IF k > Len(planned) THEN Returned(<<sum>>)
    ELSE CHOOSE total \in
             {IF ~loss.ok THEN loss
              ELSE SumLosses(field, planned, k + 1, FAdd(sum, loss.value[1])) :
                  loss \in {StepPlanningLoss(field, planned[k])}} : TRUE

\* Mutant of cost_value: the last planned step does not contribute.
cost_value_without_last(step_planning, parameter) ==
    IF ~StepPlanFrom(parameter).ok
    THEN Panicked(<<"assertion failed: value.len() % 3 == 0">>)
    ELSE CHOOSE loss \in
             {SumLosses(step_planning, SubSeq(planned, 1, Len(planned) - 1), 1, R(0)) :
                  planned \in {planned_steps(
                      PoseAndSupportFoot(step_planning.initial_pose,
                                         step_planning.initial_support_foot),
                      StepPlanFrom(parameter).plan)}} : TRUE

\* StepPlanningProblem::cost with the value it returns.
cost_value(step_planning, parameter) ==
    IF ~StepPlanFrom(parameter).ok
    THEN Panicked(<<"assertion failed: value.len() % 3 == 0">>)
    ELSE CHOOSE loss \in
             {SumLosses(step_planning, planned, 1, R(0)) :
                  planned \in {planned_steps(
                      PoseAndSupportFoot(step_planning.initial_pose,
                                         step_planning.initial_support_foot),
                      StepPlanFrom(parameter).plan)}} : TRUE

\* The walk volume of every step of the plan is a rational number.
PlanExact(step_planning, parameter) ==
    /\ Measurable(step_planning.path)
    /\ \A k \in 1..(Len(parameter) \div 3) :
           \A support_foot \in Side :
               WalkVolumeExact(step_planning.walk_volume_coefficients,
                               FloatStep(steps(parameter)[k]), support_foot)

\* problem.cost(&param)
CostQuery(step_planning, parameter) ==
    /\ PlanExact(step_planning, parameter)
    /\ lq' = LossQuery("cost", <<step_planning, parameter>>)
    /\ lout' = cost_value(step_planning, parameter)
    /\ UNCHANGED <<planVars, nan_sign, geomVars, walkVars, partialVars, clampVars, angleVars>>

\* step_planning_loss.grad(planned_step)
StepGradQuery(step_planning, planned_step) ==
    /\ Measurable(step_planning.path)
    /\ WalkVolumeExact(step_planning.walk_volume_coefficients,
                       FloatStep(planned_step.step.step), planned_step.step.support_foot)
    /\ lq' = LossQuery("StepPlanningLossField.grad", <<step_planning, planned_step>>)
    /\ lout' = StepPlanningGrad(step_planning, planned_step)
    /\ UNCHANGED <<planVars, nan_sign, geomVars, walkVars, partialVars, clampVars, angleVars>>

\* The buffers that are flat plans.
Plans == {buffer \in Buffers : Len(buffer) % 3 = 0}

CostPoses == {Pose(0, 0, 0), Pose(1, -1, 1)}

PlannedSteps ==
    {[pose |-> pose, step |-> [step |-> step, support_foot |-> support_foot]] :
         pose \in InitialPoses, step \in {steps(buffer)[1] : buffer \in SeqsOfLen(StepVals, 3)},
         support_foot \in Side}

\* A path with the penalties of plan_steps, and a path with a corner with
\* other penalties: <<path, reward, distance penalty, step size penalty>>.
CostFields ==
    {<<<<LineSegment(P(0, 0), P(3, 0))>>, R(5), R(50), R(1)>>,
     <<<<LineSegment(P(0, 0), P(2, 0)), LineSegment(P(2, 0), P(2, 2))>>, R(1), R(3), R(2)>>}

CostCoefficients ==
    Coefficients(WalkVolumeExtents(R(1), R(2), R(1), R(2), R(2), R(1)), R(2), R(2))

StepPlannings ==
    {StepPlanning(field[1], initial_pose, initial_support_foot, R(1), field[2],
                  field[3], field[4], CostCoefficients) :
         field \in CostFields, initial_pose \in CostPoses, initial_support_foot \in Side}

NextCost ==
    \/ /\ lq.op = "none"
       /\ \E step_planning \in StepPlannings, parameter \in Plans :
              CostQuery(step_planning, parameter)
    \/ /\ lq.op = "none"
       /\ \E step_planning \in StepPlannings, planned_step \in PlannedSteps :
              StepGradQuery(step_planning, planned_step)
    \/ ForgetLossQuery

SpecCost == Init /\ [][NextCost]_vars

NextPartial ==
    \/ \E ty \in PartialTypes : \E value \in Values(ty) : Construct(ty, value)
    \/ \E partial \in Partials(full.ty) : ApplyPartial(partial)

SpecPartial == Init /\ [][NextPartial]_vars

NextClamp ==
    \/ /\ cq.op = "none"
       /\ \E self \in PixelSegments, rect \in Rectangles : ClampToRectQuery(self, rect)
    \/ /\ cq.op = "none"
       /\ \E self \in AxisSegments, axis \in Axis, direction \in ClampDirection,
             value \in ClampValues : ClampToAxisQuery(self, axis, direction, value)
    \/ ForgetClamp

SpecClamp == Init /\ [][NextClamp]_vars

NextAngle ==
    \/ /\ aq.op = "none"
       /\ \E from, to \in Angles32, direction \in GeometryDirections :
              AngleToQuery(from, to, direction)
    \/ /\ aq.op = "none"
       /\ \E a, b \in Angles32 : AngleEqQuery(a, b)
    \/ ForgetAngle

SpecAngle == Init /\ [][NextAngle]_vars

NextWalk ==
    \/ /\ wext = NoExtents
       /\ \E f, b, o, i, orot, irot \in ExtentVals, t, r \in Exponents :
              FromExtents(WalkVolumeExtents(f, b, o, i, orot, irot), t, r)
    \/ ForgetCoefficients

SpecWalk == Init /\ [][NextWalk]_vars

(***************************************************************************)
(* Properties.                                                             *)
(***************************************************************************)
Planned == result.steps

RolledOut == pc = "done" /\ result.kind = "Ok"

FootOf(k) == Planned[k].step.support_foot

StepOf(k) == Planned[k].step.step

PoseBefore(k) == IF k = 1 THEN call.initial_pose ELSE Planned[k - 1].pose

RolledBuffer == IF call.op = "rollout" THEN call.buffer ELSE solver.best_param[1]

RECURSIVE TurnSum(_)
TurnSum(k) == IF k = 0 THEN 0 ELSE TurnSum(k - 1) + StepOf(k).turn

(* C1: in every rollout the first planned step carries the initial support *)
(* foot and each following planned step carries the other foot than its    *)
(* predecessor.                                                            *)
C1_SupportFootAlternates ==
    RolledOut =>
        /\ Len(Planned) >= 1 => FootOf(1) = call.initial_support_foot
        /\ \A k \in 1..Len(Planned) : FootOf(k) \in Side
        /\ \A k \in 1..(Len(Planned) - 1) : FootOf(k + 1) # FootOf(k)

C1_Witness ==
    /\ RolledOut
    /\ call.op = "rollout"
    /\ call.initial_support_foot = "Right"
    /\ Len(Planned) >= 2
    /\ FootOf(2) = "Left"

(* C2: the pose of planned step k is the pose before it, moved by the      *)
(* step's (forward, left) rotated by the orientation before the step, and  *)
(* turned by the step's turn; the orientation is the unwrapped sum of the  *)
(* initial orientation and the turns so far.                               *)
C2_PoseRollout ==
    RolledOut =>
        \A k \in 1..Len(Planned) :
            LET before == PoseBefore(k)
                o == before.orientation
                s == StepOf(k)
            IN  /\ Planned[k].pose.position[1] =
                       before.position[1] + Cos(o) * s.forward - Sin(o) * s.left
                /\ Planned[k].pose.position[2] =
                       before.position[2] + Sin(o) * s.forward + Cos(o) * s.left
                /\ Planned[k].pose.orientation = o + s.turn
                /\ Planned[k].pose.orientation =
                       call.initial_pose.orientation + TurnSum(k)
                /\ o = 0 =>
                       Planned[k].pose.position =
                           <<before.position[1] + s.forward,
                             before.position[2] + s.left>>

C2_Witness ==
    /\ RolledOut
    /\ Len(Planned) >= 2
    /\ StepOf(1).turn = 1
    /\ StepOf(2).forward = 1
    /\ StepOf(2).left = -1
    /\ Planned[2].pose.position =
           <<call.initial_pose.position[1] + Cos(call.initial_pose.orientation + 1)
                 + Sin(call.initial_pose.orientation + 1)
                 + Cos(call.initial_pose.orientation) * StepOf(1).forward
                 - Sin(call.initial_pose.orientation) * StepOf(1).left,
             call.initial_pose.position[2] + Sin(call.initial_pose.orientation + 1)
                 - Cos(call.initial_pose.orientation + 1)
                 + Sin(call.initial_pose.orientation) * StepOf(1).forward
                 + Cos(call.initial_pose.orientation) * StepOf(1).left>>

(* C3: a successful plan_steps returns exactly 15 planned steps; a rollout *)
(* of a flat buffer of 3*N values yields N planned steps, the k-th         *)
(* carrying entries 3k, 3k+1, 3k+2 (counted from 0) as forward, left, turn.*)
C3_StepsInOrder ==
    RolledOut =>
        /\ call.op = "plan_steps" => Len(Planned) = 15
        /\ 3 * Len(Planned) = Len(RolledBuffer)
        /\ \A k \in 1..Len(Planned) :
               /\ StepOf(k).forward = RolledBuffer[3 * k - 2]
               /\ StepOf(k).left = RolledBuffer[3 * k - 1]
               /\ StepOf(k).turn = RolledBuffer[3 * k]

C3_Witness ==
    /\ RolledOut
    /\ call.op = "plan_steps"
    /\ Len(Planned) = 15
    /\ \E k \in 1..15 : StepOf(k).left = 1 /\ StepOf(k).forward = 0

(* C4: when the solver run failed, plan_steps returns an error that wraps  *)
(* the solver's diagnostic, returns no planned step, and the solver was    *)
(* run once.                                                               *)
C4_SolverErrorSurfaced ==
    /\ runs <= 1
    /\ (pc = "done" /\ call.op = "plan_steps" /\ solver.status = "failed") =>
           /\ result.kind = "Err"
           /\ result.msg = <<"Executor failed: ", solver.error>>
           /\ result.steps = <<>>
           /\ runs = 1

C4_Witness ==
    /\ pc = "done"
    /\ call.op = "plan_steps"
    /\ solver.status = "failed"
    /\ solver.error = "LineSearchFailed"
    /\ result.kind = "Err"

(* C5: when the solver run finished without error and without a best       *)
(* parameter, plan_steps fails on its internal invariant and returns no    *)
(* plan.                                                                   *)
C5_NoBestParamFails ==
    (/\ pc = "done"
     /\ call.op = "plan_steps"
     /\ solver.status = "terminated"
     /\ solver.best_param = <<>>) =>
        /\ result.kind = "Panic"
        /\ result.steps = <<>>

C5_Witness ==
    /\ pc = "done"
    /\ call.op = "plan_steps"
    /\ solver.status = "terminated"
    /\ solver.best_param = <<>>
    /\ result.kind = "Panic"

(* C7: project, progress and forward of a path without segments fail with  *)
(* the message "Path was empty" and return no value, whatever the point.   *)
C7_EmptyPathFailsFast ==
    (gq.op \in {"Path.project", "Path.progress", "Path.forward"} /\ gq.path = <<>>) =>
        /\ ~gout.ok
        /\ gout.msg = <<"Path was empty">>
        /\ gout.value = <<>>

C7_Witness ==
    /\ gq.op = "Path.project"
    /\ gq.path = <<>>
    /\ gq.point = P(3, -1)
    /\ ~gout.ok

(* C8: wrapping a flat buffer whose length is no multiple of 3 fails; when *)
(* wrapping succeeds, the steps read back are len/3 and, laid end to end,  *)
(* are the buffer.                                                         *)
C8_WrapChecksLength ==
    (pc = "done" /\ call.op = "rollout") =>
        /\ Len(call.buffer) % 3 # 0 => result.kind = "Panic"
        /\ result.kind = "Ok" =>
               /\ Len(call.buffer) % 3 = 0
               /\ Len(Planned) = Len(call.buffer) \div 3
               /\ \A i \in 1..Len(call.buffer) :
                      LET s == StepOf((i + 2) \div 3)
                      IN  call.buffer[i] =
                              CASE i % 3 = 1 -> s.forward
                                [] i % 3 = 2 -> s.left
                                [] OTHER -> s.turn

C8_Witness ==
    /\ pc = "done"
    /\ call.op = "rollout"
    /\ Len(call.buffer) = 4
    /\ result.kind = "Panic"

(* C9: constructing the coefficients fails whenever one of the six extents *)
(* is zero; otherwise every coefficient times its extent is 1.             *)
C9_ZeroExtentFailsFast ==
    wext # NoExtents =>
        IF \E f \in ExtentFields : wext.extents[f] = R(0)
        THEN ~wout.ok
        ELSE /\ wout.ok
             /\ \A f \in ExtentFields :
                    FMul(wout.value[CostOf(f)], wext.extents[f]) = R(1)

(* C10: the projection of any point onto a line segment whose start and    *)
(* end coincide is the start of the segment.                               *)
C10_DegenerateProjectsToStart ==
    (gq.op = "LineSegment.project" /\ gq.path[1].start = gq.path[1].end) =>
        /\ gout.ok
        /\ gout.value = gq.path[1].start

(* C11: at the centre of its circle an arc projects to its start point,   *)
(* and neither project, progress nor forward yields NaN or an infinity.    *)
IsFinite(x) == x.k = "num"

C11_CenterProjectsToStart ==
    (gq.op \in {"Arc.project", "Arc.progress", "Arc.forward"}
        /\ gq.point = gq.path[1].circle.center) =>
        CASE gq.op = "Arc.project" ->
                 gout.value = point_at_angle(gq.path[1].circle, gq.path[1].start)
          [] gq.op = "Arc.forward" ->
                 IsFinite(gout.value[1]) /\ IsFinite(gout.value[2])
          [] OTHER ->
                 IsFinite(gout.value[1].lin) /\ IsFinite(gout.value[1].qtr)

(* C12: the projection of a point p onto a non-empty path is a point of    *)
(* the path, no point of any segment is nearer to p, and among the         *)
(* segments whose projection is nearest the first one in path order is     *)
(* the one projected onto.                                                 *)
Le(a, b) == a.k = "num" /\ b.k = "num" /\ ~FLt(b, a)

SamplePoints(segment) ==
    IF segment.kind = "LineSegment"
    THEN {VAdd(segment.start, VScale(VSub(segment.end, segment.start), Num(i, 4))) :
              i \in 0..4}
    ELSE {point_at_angle(segment.circle, segment.start),
          point_at_angle(segment.circle, segment.end)}
         \cup {point_at_angle(segment.circle, Angle(q)) :
                  q \in {r \in 0..3 :
                            AngleLt(angle_to(segment.start, Angle(r), segment.direction),
                                    angle_to(segment.start, segment.end,
                                             segment.direction))}}

OnSegment(segment, q) ==
    IF segment.kind = "LineSegment"
    THEN LET direction == VSub(segment.end, segment.start)
             v == VSub(q, segment.start)
         IN  /\ FSub(FMul(v[1], direction[2]), FMul(v[2], direction[1])) = R(0)
             /\ Le(R(0), dot(v, direction))
             /\ Le(dot(v, direction), norm_squared(direction))
    ELSE /\ norm_squared(VSub(q, segment.circle.center))
                = FMul(segment.circle.radius, segment.circle.radius)
         /\ \/ classify_point(segment, q) = "OnArc"
            \/ q = point_at_angle(segment.circle, segment.start)
            \/ q = point_at_angle(segment.circle, segment.end)

FirstNearest(segments, point) ==
    LET d == [i \in 1..Len(segments) |->
                 norm_squared(VSub(SegmentProject(segments[i], point), point))]
        nearest == {i \in 1..Len(segments) : \A j \in 1..Len(segments) : Le(d[i], d[j])}
    IN  IF nearest = {} THEN 0
        ELSE CHOOSE i \in nearest : \A j \in nearest : i <= j

C12_PathProjectNearest ==
    (gq.op = "Path.project" /\ gq.path # <<>>) =>
        /\ gout.ok
        /\ \E i \in 1..Len(gq.path) : OnSegment(gq.path[i], gout.value)
        /\ \A i \in 1..Len(gq.path) : \A q \in SamplePoints(gq.path[i]) :
               Le(norm_squared(VSub(gout.value, gq.point)),
                  norm_squared(VSub(q, gq.point)))
        /\ FirstNearest(gq.path, gq.point) # 0
        /\ gout.value = SegmentProject(gq.path[FirstNearest(gq.path, gq.point)], gq.point)

(* C13: the progress of a point along a non-empty path is the length of   *)
(* the segments before the segment the projection selects plus the         *)
(* progress along that segment, the forward direction is that segment's,   *)
(* and moving a point along the forward direction of a segment strictly    *)
(* increases its progress along the segment.                               *)
Selected(segments, point) ==
    LET d == [i \in 1..Len(segments) |->
                 norm_squared(VSub(SegmentProject(segments[i], point), point))]
    IN  CHOOSE i \in 1..Len(segments) :
            \A j \in 1..Len(segments) :
                /\ j < i => TotalLess(d[i], d[j])
                /\ j > i => ~TotalLess(d[j], d[i])

FMin(a, b) == IF FLt(b, a) THEN b ELSE a

FMax(a, b) == IF FLt(a, b) THEN b ELSE a

HalfPiLo == Num(15707, 10000)

HalfPiHi == Num(15708, 10000)

AtanLo(t) ==
    IF t = R(0) THEN R(0)
    ELSE FMax(FDiv(t, FAdd(R(1), FMul(t, t))), FSub(HalfPiLo, FDiv(R(1), t)))

AtanHi(t) ==
    IF t = R(0) THEN R(0)
    ELSE FMin(t, FSub(HalfPiHi, FDiv(t, FAdd(R(1), FMul(t, t)))))

LLo(a) == FAdd(a.lin, FAdd(FMul(a.qtr, HalfPiLo), FMul(a.fr, AtanLo(a.ft))))

LHi(a) == FAdd(a.lin, FAdd(FMul(a.qtr, HalfPiHi), FMul(a.fr, AtanHi(a.ft))))

LFinite(a) == a.lin.k = "num" /\ a.qtr.k = "num" /\ a.fr.k = "num" /\ a.ft.k = "num"

LLt(a, b) ==
    /\ LFinite(a)
    /\ LFinite(b)
    /\ \/ a.qtr = b.qtr /\ a.fr = b.fr /\ a.ft = b.ft /\ FLt(a.lin, b.lin)
       \/ a.qtr = b.qtr /\ a.lin = b.lin /\ a.fr = b.fr /\ FLt(a.ft, b.ft)
       \/ a.qtr = b.qtr /\ a.lin = b.lin /\ a.fr = R(0) /\ FLt(R(0), b.fr)
              /\ FLt(R(0), b.ft)
       \/ FLt(LHi(a), LLo(b))

LNotLt(a, b) == ~LFinite(a) \/ ~LFinite(b) \/ a = b \/ LLt(b, a)

C13_ProgressAlongSelected ==
    /\ (gq.op = "Path.progress" /\ gq.path # <<>>) =>
           LET i == Selected(gq.path, gq.point)
           IN  /\ gout.ok
               /\ gout.value[1] = LAdd(PathLength(SubSeq(gq.path, 1, i - 1)),
                                       SegmentProgress(gq.path[i], gq.point))
    /\ (gq.op = "Path.forward" /\ gq.path # <<>>) =>
           /\ gout.ok
           /\ gout.value = SegmentForward(gq.path[Selected(gq.path, gq.point)], gq.point)
    /\ gq.op = "PathSegment.forward" => ~LNotLt(gout.value.before, gout.value.after)

(* C14 as claimed: the length of an arc is its radius times the angle     *)
(* from start to end in its direction, and the counterclockwise and the    *)
(* clockwise arc with the same start and end add up to the circumference.  *)
Quarters(q, radius) == [lin |-> R(0), qtr |-> FMul(R(q), radius), fr |-> R(0), ft |-> R(0)]

ArcLengthsAsAngles ==
    LET ccw == gq.path[1]
    IN  /\ gout.value[1] = Quarters((ccw.end.q - ccw.start.q) % 4, ccw.circle.radius)
        /\ gout.value[2] = Quarters((ccw.start.q - ccw.end.q) % 4, ccw.circle.radius)

C14_OppositeArcsSumToCircle ==
    gq.op = "Arc.length" =>
        /\ ArcLengthsAsAngles
        /\ LAdd(gout.value[1], gout.value[2]) = Quarters(4, gq.path[1].circle.radius)

(* C14 as amended: the two lengths are the radius times the angle from     *)
(* start to end in either direction; they add up to the circumference      *)
(* unless end - start is a whole number of turns, and are both 0 then.     *)
C14_ArcLengths ==
    gq.op = "Arc.length" =>
        /\ ArcLengthsAsAngles
        /\ IF (gq.path[1].end.q - gq.path[1].start.q) % 4 = 0
           THEN gout.value[1] = Lin(R(0)) /\ gout.value[2] = Lin(R(0))
           ELSE LAdd(gout.value[1], gout.value[2])
                    = Quarters(4, gq.path[1].circle.radius)

C14_Witness ==
    /\ gq.op = "Arc.length"
    /\ gq.path[1].start = Angle(1)
    /\ gq.path[1].end = Angle(4)
    /\ gq.path[1].circle.radius = R(2)
    /\ gout.value = <<Quarters(3, R(2)), Quarters(1, R(2))>>

(* C15: the path-progress loss of a point whose progress has reached the  *)
(* length of the path is minus that length and its gradient is zero; the   *)
(* loss is never below minus the length, smoothmin being at most its max.  *)
ProgressOf(path, point) == PathProgress(path, point).value[1].lin

C15_NoRewardPastEnd ==
    /\ lq.op = "smoothmin" => Le(lout.value[1], lq.args[2])
    /\ (lq.op = "PathProgressField.loss" /\ lq.args[1] # <<>>) =>
           /\ lout.ok
           /\ Le(FNeg(PathLength(lq.args[1]).lin), lout.value[1])
           /\ Le(PathLength(lq.args[1]).lin, ProgressOf(lq.args[1], lq.args[2])) =>
                  lout.value[1] = FNeg(PathLength(lq.args[1]).lin)
    /\ (lq.op = "PathProgressField.grad" /\ lq.args[1] # <<>>) =>
           /\ lout.ok
           /\ Le(PathLength(lq.args[1]).lin, ProgressOf(lq.args[1], lq.args[2])) =>
                  lout.value = P(0, 0)

C15_Witness ==
    /\ lq.op = "PathProgressField.loss"
    /\ lq.args = <<<<LineSegment(P(0, 0), P(2, 0))>>, P(3, 1), R(1)>>
    /\ lout.value = <<R(-2)>>

(* C16: at x = max - h, where the second branch takes over from the       *)
(* first, smoothmin is max - h/2, which is also x + h/2, and its           *)
(* derivative is 1; at x = max, where the third branch takes over,         *)
(* smoothmin is max, which is also max - (max - x)^2 / (2h), and its       *)
(* derivative is 0, which is also (max - x) / h.                           *)
AtLowerSeam == lq.args[1] = FSub(lq.args[2], lq.args[3])

AtUpperSeam == lq.args[1] = lq.args[2]

C16_SmoothminSeams ==
    /\ (lq.op = "smoothmin" /\ AtLowerSeam) =>
           /\ lout.value[1] = FSub(lq.args[2], FMul(lq.args[3], Num(1, 2)))
           /\ lout.value[1] = FAdd(lq.args[1], FMul(lq.args[3], Num(1, 2)))
    /\ (lq.op = "smoothmin_derivative" /\ AtLowerSeam) => lout.value[1] = R(1)
    /\ (lq.op = "smoothmin" /\ AtUpperSeam) =>
           /\ lout.value[1] = lq.args[2]
           /\ lout.value[1] = FSub(lq.args[2],
                                   FDiv(powi(FSub(lq.args[2], lq.args[1]), 2),
                                        FMul(lq.args[3], R(2))))
    /\ (lq.op = "smoothmin_derivative" /\ AtUpperSeam) =>
           /\ lout.value[1] = R(0)
           /\ lout.value[1] = FDiv(FSub(lq.args[2], lq.args[1]), lq.args[3])

C16_Witness ==
    /\ lq.op = "smoothmin"
    /\ lq.args = <<R(1), R(3), R(2)>>
    /\ lout.value = <<R(2)>>

(* C17: the path-distance loss of a point p is the squared distance from  *)
(* p to its projection q onto the path and the gradient is 2 (p - q); the  *)
(* loss is never negative, and loss and gradient are zero for every point  *)
(* of the path.                                                            *)
OnPath(path, point) == \E i \in 1..Len(path) : OnSegment(path[i], point)

C17_DistanceLossAndGradient ==
    /\ (lq.op = "PathDistanceField.loss" /\ lq.args[1] # <<>>) =>
           /\ lout.ok
           /\ lout.value[1] = norm_squared(VSub(lq.args[2],
                                                PathProject(lq.args[1], lq.args[2]).value))
           /\ Le(R(0), lout.value[1])
           /\ OnPath(lq.args[1], lq.args[2]) => lout.value[1] = R(0)
    /\ (lq.op = "PathDistanceField.grad" /\ lq.args[1] # <<>>) =>
           /\ lout.ok
           /\ lout.value = VScale(VSub(lq.args[2],
                                       PathProject(lq.args[1], lq.args[2]).value), R(2))
           /\ OnPath(lq.args[1], lq.args[2]) => lout.value = P(0, 0)

(* C18: the cost of each axis is selected by the sign of the step          *)
(* component and, for left and turn, by the support foot: Left takes the   *)
(* inward cost for positive left, the outward cost for negative left, the  *)
(* outward-rotation cost for positive turn and the inward-rotation cost    *)
(* for negative turn, Right takes the swapped ones, forward takes          *)
(* forward_cost or backward_cost whatever the foot; and with the inward    *)
(* extent smaller than the outward extent a Left step (0, +e, 0) has a     *)
(* strictly higher penalty than (0, -e, 0), a Right step a strictly lower  *)
(* one.                                                                    *)
SizeCoefficients == Coefficients(lq.args[1], lq.args[2], lq.args[3])

SizeStep == lq.args[4]

SizeFoot == lq.args[5]

Positive(value) == value.k = "num" /\ value.n > 0

Negative(value) == value.k = "num" /\ value.n < 0

CostSelected ==
    LET c == SizeCoefficients
        left == SizeFoot = "Left"
    IN  /\ Positive(SizeStep.forward) => lout.value.forward = c.forward_cost
        /\ Negative(SizeStep.forward) => lout.value.forward = c.backward_cost
        /\ Positive(SizeStep.left) =>
               lout.value.left = IF left THEN c.inward_cost ELSE c.outward_cost
        /\ Negative(SizeStep.left) =>
               lout.value.left = IF left THEN c.outward_cost ELSE c.inward_cost
        /\ Positive(SizeStep.turn) =>
               lout.value.turn = IF left THEN c.outward_rotation_cost
                                 ELSE c.inward_rotation_cost
        /\ Negative(SizeStep.turn) =>
               lout.value.turn = IF left THEN c.inward_rotation_cost
                                 ELSE c.outward_rotation_cost

Mirrored == Step(R(0), FNeg(SizeStep.left), R(0))

InwardCostlier ==
    LET other == StepSizeLoss(SizeCoefficients, Mirrored, SizeFoot)
    IN  IF SizeFoot = "Left" THEN FLt(other, lout.value[1])
        ELSE FLt(lout.value[1], other)

SidewaysOnly ==
    /\ lq.op = "StepSizeField.loss"
    /\ SizeStep.forward = R(0)
    /\ SizeStep.turn = R(0)
    /\ Positive(SizeStep.left)
    /\ FLt(lq.args[1].inward, lq.args[1].outward)

C18_CostSelection ==
    /\ lq.op = "costs" => CostSelected
    /\ SidewaysOnly => InwardCostlier

(***************************************************************************)
(* C21.  Applying a partial changes exactly the fields the partial names:  *)
(* a leaf that the partial names (a Some at the leaf under a Some at every *)
(* struct above it) holds the given value afterwards, every other leaf,    *)
(* siblings inside the same nested struct included, holds the value it had *)
(* before the call, and a partial whose fields are None at every nesting   *)
(* level leaves the whole value unchanged.                                 *)
(***************************************************************************)
RECURSIVE LeafPaths(_)
LeafPaths(ty) ==
    IF ty.kind = "leaf" THEN {<<>>}
    ELSE UNION {{<<ty.fields[i].ident>> \o path : path \in LeafPaths(ty.fields[i].ty)} :
                    i \in DOMAIN ty.fields}

RECURSIVE FieldAt(_, _)
FieldAt(value, path) ==
    IF path = <<>> THEN value ELSE FieldAt(value[Head(path)], Tail(path))

RECURSIVE Names(_, _)
Names(p, path) ==
    IF path = <<>> THEN TRUE
    ELSE p[Head(path)].some /\ Names(p[Head(path)].value, Tail(path))

RECURSIVE NamedValue(_, _)
NamedValue(p, path) ==
    IF path = <<>> THEN p ELSE NamedValue(p[Head(path)].value, Tail(path))

RECURSIVE AllNone(_, _)
AllNone(p, ty) ==
    /\ ty.kind = "struct"
    /\ \A ident \in Idents(ty) :
           IF p[ident].some THEN AllNone(p[ident].value, FieldTy(ty, ident)) ELSE TRUE

C21_ApplyPartialExact ==
    applied.some =>
        /\ \A path \in LeafPaths(full.ty) :
               FieldAt(full.value, path) =
                   IF Names(applied.value, path) THEN NamedValue(applied.value, path)
                   ELSE FieldAt(full_orig.value, path)
        /\ AllNone(applied.value, full.ty) => full = full_orig

\* A partial of Baz names field4.field1 and not its sibling field4.field2.field3:
\* the first changed, the second kept a non-default value.
C21_SiblingKept ==
    /\ applied.some
    /\ full.ty.name = "Baz"
    /\ Names(applied.value, <<"field4", "field1">>)
    /\ ~Names(applied.value, <<"field4", "field2", "field3">>)
    /\ full.value.field4.field1 # full_orig.value.field4.field1
    /\ full.value.field4.field2.field3 = 42

(***************************************************************************)
(* C22.  For every rectangle with min <= max on both axes, clamp_to_rect   *)
(* returns the segment unchanged when both endpoints lie inside the        *)
(* rectangle, both endpoints of a returned segment lie inside the          *)
(* rectangle (bounds inclusive), and it returns None when at some clamping *)
(* stage both endpoints lie strictly beyond the same bound.                *)
(***************************************************************************)
ClampedRect ==
    Rectangle(Pixel(cq.calls[1].value, cq.calls[3].value),
              Pixel(cq.calls[2].value, cq.calls[4].value))

Inside(point, rect) ==
    /\ F32Le(rect.min.x, point.x)
    /\ F32Le(point.x, rect.max.x)
    /\ F32Le(rect.min.y, point.y)
    /\ F32Le(point.y, rect.max.y)

Receiver(i) == IF i = 1 THEN Some(cq.self) ELSE cq.stages[i - 1]

BothBeyond(i) ==
    /\ Receiver(i).some
    /\ is_outside(Receiver(i).value[1], cq.calls[i].axis, cq.calls[i].direction,
                  cq.calls[i].value)
    /\ is_outside(Receiver(i).value[2], cq.calls[i].axis, cq.calls[i].direction,
                  cq.calls[i].value)

C22_ClampToRect ==
    (/\ cq.op = "clamp_to_rect"
     /\ F32Le(ClampedRect.min.x, ClampedRect.max.x)
     /\ F32Le(ClampedRect.min.y, ClampedRect.max.y)) =>
        /\ (Inside(cq.self[1], ClampedRect) /\ Inside(cq.self[2], ClampedRect)) =>
               (cout.some /\ cout.value = cq.self)
        /\ cout.some =>
               (Inside(cout.value[1], ClampedRect) /\ Inside(cout.value[2], ClampedRect))
        /\ (\E i \in 1..4 : BothBeyond(i)) => ~cout.some

(***************************************************************************)
(* C30.  clamp_to_axis never divides by zero: at every call of             *)
(* clamp_to_axis, those that clamp_to_rect makes on the results of earlier *)
(* calls included, line_axis_intersection is evaluated only when exactly   *)
(* one endpoint of the receiver lies strictly beyond the clamping value,   *)
(* and the component of the direction along the clamped axis, which is the *)
(* divisor, is then not zero.                                              *)
(***************************************************************************)
ExactlyOneOutside(line, c) ==
    is_outside(line[1], c.axis, c.direction, c.value)
        # is_outside(line[2], c.axis, c.direction, c.value)

Divisor(line, c) == Along(LineDirection(line), c.axis)

C30_NoDivisionByZero ==
    \A i \in DOMAIN cq.stages :
        cq.stages[i].some =>
            \A j \in DOMAIN cq.stages[i].intersected :
                /\ ExactlyOneOutside(cq.stages[i].intersected[j], cq.calls[i])
                /\ Divisor(cq.stages[i].intersected[j], cq.calls[i]) # Zero32

\* All four calls of one clamp_to_rect evaluate an intersection, the later
\* ones on the results of the earlier ones.
C30_FourIntersections ==
    /\ cq.op = "clamp_to_rect"
    /\ \A i \in 1..4 : cq.stages[i].some /\ cq.stages[i].intersected # <<>>

(***************************************************************************)
(* C23.  Arc point classification breaks distance ties in favour of Start: *)
(* a point that is not OnArc and is equally far from the start point and   *)
(* the end point of the arc is classified Start, project returns the start *)
(* point and progress is the offset along the start tangent.               *)
(***************************************************************************)
QueriedArc == gq.path[1]

PolarAngle(arc, point) ==
    atan2(VSub(point, arc.circle.center)[2], VSub(point, arc.circle.center)[1])

InSweep(arc, point) ==
    AngleLt(angle_to(arc.start, PolarAngle(arc, point), arc.direction),
            angle_to(arc.start, arc.end, arc.direction))

StartPoint(arc) == point_at_angle(arc.circle, arc.start)
EndPoint(arc) == point_at_angle(arc.circle, arc.end)

SquaredDistance(a, b) == norm_squared(VSub(a, b))

EquallyFar(arc, point) ==
    SquaredDistance(point, StartPoint(arc)) = SquaredDistance(point, EndPoint(arc))

FromStart(arc, point) ==
    Lin(dot(VSub(point, StartPoint(arc)), tangent(arc.circle, arc.start, arc.direction)))

FromEnd(arc, point) ==
    LAdd(AngleTimes(angle_to(arc.start, arc.end, arc.direction), arc.circle.radius),
         Lin(dot(VSub(point, EndPoint(arc)), tangent(arc.circle, arc.end, arc.direction))))

C23_TiesGoToStart ==
    (/\ gq.op \in {"Arc.project", "Arc.progress"}
     /\ ~InSweep(QueriedArc, gq.point)
     /\ EquallyFar(QueriedArc, gq.point)) =>
        /\ classify_point(QueriedArc, gq.point) = "Start"
        /\ gq.op = "Arc.project" => gout.value = StartPoint(QueriedArc)
        /\ gq.op = "Arc.progress" => gout.value[1] = FromStart(QueriedArc, gq.point)

(***************************************************************************)
(* C24.  A point is on the arc exactly when the angle from the start to    *)
(* its polar angle, in the direction of the arc, is strictly less than the *)
(* angle from the start to the end.  project then returns the radial       *)
(* projection center + radius * (p - center) / |p - center|, and otherwise *)
(* the endpoint of the arc that is nearer to the point; progress returns   *)
(* radius times the angle from the start, and otherwise the offset along   *)
(* the start tangent if the start point is nearer and the length plus the  *)
(* offset along the end tangent if the end point is nearer.                *)
(***************************************************************************)
Radial(arc, point) ==
    VAdd(arc.circle.center,
         <<FDiv(FMul(arc.circle.radius, VSub(point, arc.circle.center)[1]),
                norm(VSub(point, arc.circle.center))),
           FDiv(FMul(arc.circle.radius, VSub(point, arc.circle.center)[2]),
                norm(VSub(point, arc.circle.center)))>>)

StartNearer(arc, point) ==
    FLt(SquaredDistance(point, StartPoint(arc)), SquaredDistance(point, EndPoint(arc)))

EndNearer(arc, point) ==
    FLt(SquaredDistance(point, EndPoint(arc)), SquaredDistance(point, StartPoint(arc)))

C24_ProjectOf(arc, point, projection) ==
    IF InSweep(arc, point) THEN projection = Radial(arc, point)
    ELSE IF StartNearer(arc, point) THEN projection = StartPoint(arc)
    ELSE IF EndNearer(arc, point) THEN projection = EndPoint(arc)
    ELSE projection \in {StartPoint(arc), EndPoint(arc)}

C24_ProgressOf(arc, point, progress) ==
    IF InSweep(arc, point)
    THEN progress = AngleTimes(angle_to(arc.start, PolarAngle(arc, point), arc.direction),
                               arc.circle.radius)
    ELSE IF StartNearer(arc, point) THEN progress = FromStart(arc, point)
    ELSE IF EndNearer(arc, point) THEN progress = FromEnd(arc, point)
    ELSE progress \in {FromStart(arc, point), FromEnd(arc, point)}

C24_ArcProjectAndProgress ==
    /\ gq.op = "Arc.project" => C24_ProjectOf(QueriedArc, gq.point, gout.value)
    /\ gq.op = "Arc.progress" => C24_ProgressOf(QueriedArc, gq.point, gout.value[1])
    /\ gq.op \in {"Arc.project", "Arc.progress"} =>
           (classify_point(QueriedArc, gq.point) = "OnArc") = InSweep(QueriedArc, gq.point)

\* The progress of a point at the end angle of an arc that is a quarter turn
\* long, and the projection of a point for which the end point is nearer.
C24_AtEndAngle ==
    /\ gq.op = "Arc.progress"
    /\ angle_to(QueriedArc.start, QueriedArc.end, QueriedArc.direction) = Angle(1)
    /\ PolarAngle(QueriedArc, gq.point) = normalized(QueriedArc.end)
    /\ gq.point # QueriedArc.circle.center
    /\ ~InSweep(QueriedArc, gq.point)
    /\ gout.value[1] = FromEnd(QueriedArc, gq.point)

(***************************************************************************)
(* C25.  For every pair of angles and every direction the result of        *)
(* angle_to is the normalised difference times the sign of the direction   *)
(* (-1 for clockwise, +1 for counterclockwise, 0 for colinear), it lies in *)
(* [0, 2*pi), and the colinear result is always 0.                         *)
(***************************************************************************)
SignOf(direction) ==
    IF direction = "Clockwise" THEN -1 ELSE IF direction = "Counterclockwise" THEN 1 ELSE 0

C25_AngleToInRange ==
    aq.op = "angle_to" =>
        /\ aout = normalized32(F32Mul(F32Sub(aq.to, aq.from), F32(SignOf(aq.direction))))
        /\ F32Le(Zero32, aout)
        /\ F32Lt(aout, TAU32)
        /\ aq.direction = "Colinear" => aout = Zero32

(***************************************************************************)
(* C26.  For every line segment with distinct endpoints and every point p, *)
(* project(p) is start + t * (end - start) for a t in [0, 1], and          *)
(* progress(p) is the signed distance of p along the direction of the      *)
(* segment without clamping: negative when p projects before the start,    *)
(* greater than the length of the segment when p projects past the end,    *)
(* and the distance from the start to project(p) otherwise.                *)
(***************************************************************************)
QueriedLine == gq.path[1]

LineDir(segment) == VSub(segment.end, segment.start)

\* The parameter of the projection before clamping, times |end - start|^2.
Along2(segment, point) == dot(VSub(point, segment.start), LineDir(segment))

Cross(v, w) == FSub(FMul(v[1], w[2]), FMul(v[2], w[1]))

OnLineSegment(segment, q) ==
    /\ Cross(VSub(q, segment.start), LineDir(segment)) = R(0)
    /\ ~FLt(Along2(segment, q), R(0))
    /\ ~FLt(norm_squared(LineDir(segment)), Along2(segment, q))

C26_Progress(segment, point, progress) ==
    IF FLt(Along2(segment, point), R(0)) THEN FLt(progress, R(0))
    ELSE IF FLt(norm_squared(LineDir(segment)), Along2(segment, point))
    THEN FLt(norm(LineDir(segment)), progress)
    ELSE /\ ~FLt(progress, R(0))
         /\ FMul(progress, progress)
                = norm_squared(VSub(LineProject(segment, point), segment.start))

C26_ProjectClampedProgressNot ==
    /\ (gq.op = "LineSegment.project" /\ QueriedLine.start # QueriedLine.end) =>
           OnLineSegment(QueriedLine, gout.value)
    /\ (gq.op = "LineSegment.progress" /\ QueriedLine.start # QueriedLine.end) =>
           C26_Progress(QueriedLine, gq.point, gout.value[1])

\* A point that projects before the start of a segment that is not parallel
\* to an axis: its progress is negative.
C26_BeforeStart ==
    /\ gq.op = "LineSegment.progress"
    /\ QueriedLine = LineSegment(P(0, 0), P(3, 4))
    /\ gq.point = P(-1, 0)
    /\ gout.value[1] = Num(-3, 5)

(***************************************************************************)
(* C27: the cost of a flat plan is the sum, over all N planned steps of    *)
(* the rollout from the initial pose and support foot, of                  *)
(* path_distance_penalty * distance + path_progress_reward * progress_loss *)
(* + step_size_penalty * step_size; every planned step contributes exactly *)
(* once, the loss of a planned step does not depend on the orientation of  *)
(* its pose, and the orientation component of its gradient is 0.           *)
(***************************************************************************)
RECURSIVE SumSeq(_)
SumSeq(terms) ==
    IF terms = <<>> THEN R(0) ELSE FAdd(terms[1], SumSeq(Tail(terms)))

CostField == lq.args[1]

CostRollout ==
    planned_steps(PoseAndSupportFoot(CostField.initial_pose, CostField.initial_support_foot),
                  lq.args[2])

Distances ==
    [k \in 1..(Len(lq.args[2]) \div 3) |->
        PathDistanceLoss(CostField.path, PosePoint(CostRollout[k].pose)).value[1]]

ProgressLosses ==
    [k \in 1..(Len(lq.args[2]) \div 3) |->
        PathProgressLoss(CostField.path, CostField.path_progress_smoothness,
                         PosePoint(CostRollout[k].pose)).value[1]]

StepSizes ==
    [k \in 1..(Len(lq.args[2]) \div 3) |->
        StepSizeLoss(CostField.walk_volume_coefficients,
                     FloatStep(CostRollout[k].step.step), CostRollout[k].step.support_foot)]

Turned(planned_step, orientation) ==
    [planned_step EXCEPT !.pose = [@ EXCEPT !.orientation = orientation]]

C27_CostIsSumOfStepLosses ==
    /\ lq.op = "cost" =>
           /\ Len(CostRollout) = Len(lq.args[2]) \div 3
           /\ lout = Returned(<<FAdd(FAdd(FMul(CostField.path_distance_penalty,
                                               SumSeq(Distances)),
                                          FMul(CostField.path_progress_reward,
                                               SumSeq(ProgressLosses))),
                                     FMul(CostField.step_size_penalty,
                                          SumSeq(StepSizes)))>>)
    /\ lq.op = "StepPlanningLossField.grad" =>
           /\ lout.ok /\ lout.value.pose.orientation = R(0)
           /\ \A orientation \in -2..2 :
                  StepPlanningLoss(CostField, Turned(lq.args[2], orientation))
                      = StepPlanningLoss(CostField, lq.args[2])

\* A plan of two steps, each off the path, short of its end and not standing.
C27_TwoStepsCount ==
    /\ lq.op = "cost"
    /\ Len(lq.args[2]) = 6
    /\ \A k \in 1..2 :
           /\ Distances[k] # R(0)
           /\ ProgressLosses[k] # R(0)
           /\ StepSizes[k] # R(0)
    /\ CostField.path_progress_reward # R(0)
    /\ CostRollout[1].pose.orientation # CostRollout[2].pose.orientation

(***************************************************************************)
(* C28: the rollout is a causal left-to-right fold: two flat plans that    *)
(* agree on their first 3*(k+1) entries and are rolled out from the same   *)
(* initial pose and support foot have identical planned steps 0..k, and    *)
(* the support foot of planned step k is the initial support foot for even *)
(* k and the opposite foot for odd k, whatever the step values.  Stated    *)
(* for a rolled out plan against the rollout of each plan that agrees with *)
(* it on such a prefix: against each of its own prefixes, and against each *)
(* prefix followed by one more step.                                       *)
(***************************************************************************)
AgreesUpTo(other, k) ==
    /\ Len(other) % 3 = 0
    /\ Len(other) >= 3 * (k + 1)
    /\ SubSeq(other, 1, 3 * (k + 1)) = SubSeq(call.buffer, 1, 3 * (k + 1))

PrefixAgreeing(k) ==
    {SubSeq(call.buffer, 1, 3 * (k + 1))}
        \cup {SubSeq(call.buffer, 1, 3 * (k + 1)) \o tail : tail \in SeqsOfLen(StepVals, 3)}

C28_RolloutIsCausal ==
    (call.op = "rollout" /\ result.kind = "Ok") =>
        \A k \in 0..(Len(result.steps) - 1) :
            /\ \A other \in PrefixAgreeing(k) :
                   /\ AgreesUpTo(other, k)
                   /\ SubSeq(planned_steps(PoseAndSupportFoot(call.initial_pose,
                                                              call.initial_support_foot),
                                           other), 1, k + 1)
                          = SubSeq(result.steps, 1, k + 1)
            /\ result.steps[k + 1].step.support_foot
                   = IF k % 2 = 0 THEN call.initial_support_foot
                     ELSE opposite(call.initial_support_foot)

\* A plan of two different steps, neither of them standing still.
C28_TwoDifferentSteps ==
    /\ call.op = "rollout" /\ result.kind = "Ok"
    /\ Len(result.steps) = 2
    /\ result.steps[1].step.step # result.steps[2].step.step
    /\ result.steps[1].pose # call.initial_pose
    /\ result.steps[2].pose # result.steps[1].pose
    /\ result.steps[2].step.support_foot = opposite(call.initial_support_foot)

(***************************************************************************)
(* C29: the walk volume is mirror-symmetric between the feet: for every    *)
(* step s, zero components of either sign included, and fixed              *)
(* coefficients, the costs selected for (s, Left), the walk-volume value   *)
(* and the penalty equal those of (s.mirrored(), Right), and likewise with *)
(* the feet exchanged; mirrored keeps forward, negates left and turn, and  *)
(* is an involution.                                                       *)
(***************************************************************************)
OppositeSign(a, b) ==
    /\ FAbs(a) = FAbs(b)
    /\ is_sign_positive(a) # is_sign_positive(b)

C29_MirrorSymmetric ==
    /\ lq.op = "costs" =>
           lout.value = costs(SizeCoefficients, mirrored(SizeStep), opposite(SizeFoot))
    /\ lq.op = "StepSizeField.loss" =>
           /\ WalkVolumeExact(SizeCoefficients, mirrored(SizeStep), opposite(SizeFoot))
           /\ walk_volume(SizeCoefficients, SizeStep, SizeFoot)
                  = walk_volume(SizeCoefficients, mirrored(SizeStep), opposite(SizeFoot))
           /\ lout.value[1]
                  = StepSizeLoss(SizeCoefficients, mirrored(SizeStep), opposite(SizeFoot))
    /\ lq.op = "Step.mirrored" =>
           /\ lout.value.forward = lq.args[1].forward
           /\ OppositeSign(lout.value.left, lq.args[1].left)
           /\ OppositeSign(lout.value.turn, lq.args[1].turn)
           /\ mirrored(lout.value) = lq.args[1]

\* A step to the left of zero turn on the left foot, inward and outward
\* extents differing: the mirrored step has a turn of -0.0.
C29_ZeroTurnInward ==
    /\ lq.op = "StepSizeField.loss"
    /\ SizeFoot = "Left"
    /\ Positive(SizeStep.left)
    /\ SizeStep.turn = R(0)
    /\ mirrored(SizeStep).turn = NegZero
    /\ lq.args[1].inward # lq.args[1].outward
    /\ lq.args[1].inward_rotation # lq.args[1].outward_rotation
    /\ lout.value[1] # StepSizeLoss(SizeCoefficients, SizeStep, opposite(SizeFoot))

====
